---------------------------- MODULE Spec2Model ----------------------------
(***************************************************************************)
(* A model of the `render` crate of citey: the RAII wrappers around        *)
(* OpenGL objects (Shader, ShaderProgram, Buffer, VertexArray), the        *)
(* derived vertex layout and Mesh.  The program is single threaded and     *)
(* every public operation is a blocking sequence of device calls, so one   *)
(* action models one whole operation: it computes the sequence of device   *)
(* calls the Rust code issues (drops included), runs it through the        *)
(* device state machine and keeps the sequence in `last.calls`.            *)
(***************************************************************************)
EXTENDS Integers, Sequences, FiniteSets, TLC

VARIABLES
    dev,        \* the OpenGL context: bindings, object stores, call counters
    shaders,    \* ids of the live Shader values owned by the caller
    programs,   \* live ShaderProgram values: id -> uniforms (name -> location)
    buffers,    \* live stand-alone Buffer<T> values: id -> T
    vaos,       \* ids of the live stand-alone VertexArray values
    meshes,     \* live Mesh values: vao id -> [vao, vbo, ebo, indices, vt, it]
                \* and `renders`, the render calls made on the mesh so far
    last,       \* the operation that ran last, its result and its device calls
    gl,         \* the Gl handle: the strong count of its Rc<gl::Gl> and
                \* whether the caller of the constructors still holds its own
    app         \* the App of main(): where main() is, and App's own fields

vars == <<dev, shaders, programs, buffers, vaos, meshes, last, gl, app>>

---------------------------------------------------------------------------
(* Bounds of the model.                                                    *)

MaxNames == 3           \* object names, of all kinds, the device hands out
MaxMeshNames == 5       \* the same, where only meshes and buffers are made
MaxLogChars == 1        \* characters of an info log (terminator excluded)
MaxDraws == 2           \* render calls made on one mesh
MaxShaders == 2         \* shaders handed to new_from_shaders at once
MaxPrograms == 2        \* object names, where only programs are made
MaxFields == 2          \* fields of a record handed to the derivation
MaxBuffers == 2         \* buffers created in SpecBuffer
MaxEvents == 1          \* window events delivered to one poll
MaxFrames == 2          \* frames counted within one second

---------------------------------------------------------------------------
(* Bytes.                                                                  *)

NUL == 0
SPACE == 32

\* What a panicking conversion yields instead of a text.
Panic == <<-1>>

Min(a, b) == IF a < b THEN a ELSE b

RECURSIVE SeqSum(_)
SeqSum(s) == IF s = <<>> THEN 0 ELSE Head(s) + SeqSum(Tail(s))

\* The sequences over S of length at most n.
SeqsUpTo(S, n) == UNION {[1..k -> S] : k \in 0..n}


---------------------------------------------------------------------------
(* The device: the OpenGL 3.3 core context behind the function table Gl.   *)
(* A device call is a record; `op` is the entry point's name.              *)

Locations == 0..2

\* The names of one kind the device can hand out.
Names == 1..(IF MaxNames < MaxMeshNames THEN MaxMeshNames ELSE MaxNames)

Handles ==
    ({"shader", "program"} \X Names)
        \cup ({"buffer"} \X Names)
        \cup ({"vao"} \X Names)

NoAttrib == [buf |-> 0, size |-> 0, type |-> "", stride |-> 0, offset |-> 0]
\* A buffer object without a data store: no bytes, no usage.
NoStore ==
    [size |-> [neg |-> FALSE, mag |-> [top |-> 0, hi |-> 0, lo |-> 0]],
     usage |-> ""]

DevInit ==
    [nextObj  |-> 1,
     nextBuf  |-> 1,
     nextVao  |-> 1,
     vao      |-> 0,
     arrayBuf |-> 0,
     elem     |-> [v \in {0} \cup Names |-> 0],
     program  |-> 0,
     enabled  |-> [v \in {0} \cup Names |-> {}],
     attrib   |-> [v \in {0} \cup Names |-> [l \in Locations |-> NoAttrib]],
     store    |-> [b \in Names |-> NoStore],
     kind     |-> [o \in Names |-> ""],
     attached |-> [p \in Names |-> {}],
     del      |-> [h \in Handles |-> 0],
     stale    |-> {},
     flagged  |-> {},
     context  |-> TRUE,
     active   |-> [p \in Names |-> <<>>],
     draws    |-> [v \in {0} \cup Names |-> 0]]

\* The entry points that set the value of a uniform.
UniformCalls ==
    {"Uniform1f", "Uniform2f", "Uniform3f", "Uniform4f", "UniformMatrix4fv"}

\* The handles a device call names.
Named(c) ==
    CASE c.op \in {"ShaderSource", "CompileShader", "GetShaderiv",
                   "GetShaderInfoLog", "DeleteShader"} -> {<<"shader", c.id>>}
      [] c.op \in {"AttachShader", "DetachShader"} ->
            {<<"program", c.program>>, <<"shader", c.shader>>}
      [] c.op \in {"LinkProgram", "GetProgramiv", "GetProgramInfoLog",
                   "GetUniformLocation", "DeleteProgram"} -> {<<"program", c.id>>}
      [] c.op = "UseProgram" -> IF c.id = 0 THEN {} ELSE {<<"program", c.id>>}
      [] c.op = "BindBuffer" -> IF c.id = 0 THEN {} ELSE {<<"buffer", c.id>>}
      [] c.op = "DeleteBuffers" -> {<<"buffer", c.id>>}
      [] c.op = "BindVertexArray" -> IF c.id = 0 THEN {} ELSE {<<"vao", c.id>>}
      [] c.op = "DeleteVertexArrays" -> {<<"vao", c.id>>}
      [] OTHER -> {}

\* The buffer bound to a target: the element-array binding belongs to the
\* vertex array that is current.
Bound(d, target) ==
    IF target = "ELEMENT_ARRAY_BUFFER" THEN d.elem[d.vao] ELSE d.arrayBuf

\* The uniforms whose value device call c changes in context d: a
\* value-setting call writes the uniform at its location of the program
\* that is current, if that program has a uniform of the call's type there.
UniformsWritten(d, c) ==
    IF /\ c.op \in UniformCalls
       /\ d.program # 0
       /\ c.location \in DOMAIN d.active[d.program]
       /\ d.active[d.program][c.location] = c.op
    THEN {<<d.program, c.location>>}
    ELSE {}

Released(d, h) == [d EXCEPT !.del[h] = @ + 1]

\* The effect of one device call on the context.
Effect(d, c) ==
    CASE c.op = "CreateShader" ->
            [d EXCEPT !.nextObj = @ + 1, !.kind[c.id] = "shader"]
      [] c.op = "CreateProgram" ->
            [d EXCEPT !.nextObj = @ + 1, !.kind[c.id] = "program"]
      [] c.op = "GenBuffers" -> [d EXCEPT !.nextBuf = @ + 1]
      [] c.op = "GenVertexArrays" -> [d EXCEPT !.nextVao = @ + 1]
      [] c.op = "AttachShader" ->
            [d EXCEPT !.attached[c.program] = @ \cup {c.shader}]
      [] c.op = "DetachShader" ->
            [d EXCEPT !.attached[c.program] = @ \ {c.shader}]
      [] c.op = "DeleteShader" ->
            \* a shader still attached is only flagged for deletion
            [Released(d, <<"shader", c.id>>) EXCEPT
                !.flagged = IF \E p \in Names : c.id \in d.attached[p]
                            THEN @ \cup {c.id} ELSE @]
      [] c.op = "DeleteProgram" ->
            [Released(d, <<"program", c.id>>) EXCEPT
                !.attached[c.id] = {}, !.active[c.id] = <<>>]
      \* linking gives the program its active uniforms
      [] c.op = "LinkProgram" -> [d EXCEPT !.active[c.id] = c.active]
      [] c.op = "UseProgram" -> [d EXCEPT !.program = c.id]
      \* the values of uniforms are never read back: they are not kept
      [] c.op \in UniformCalls -> d
      [] c.op = "BindVertexArray" -> [d EXCEPT !.vao = c.id]
      [] c.op = "BindBuffer" ->
            IF c.target = "ELEMENT_ARRAY_BUFFER"
            THEN [d EXCEPT !.elem[d.vao] = c.id]
            ELSE [d EXCEPT !.arrayBuf = c.id]
      [] c.op = "BufferData" ->
            IF Bound(d, c.target) = 0
            THEN d
            ELSE [d EXCEPT !.store[Bound(d, c.target)] =
                                [size |-> c.size, usage |-> c.usage]]
      [] c.op = "VertexAttribPointer" ->
            [d EXCEPT !.attrib[d.vao][c.location] =
                [buf |-> d.arrayBuf, size |-> c.size, type |-> c.type,
                 stride |-> c.stride, offset |-> c.offset]]
      [] c.op = "EnableVertexAttribArray" ->
            [d EXCEPT !.enabled[d.vao] = @ \cup {c.location}]
      [] c.op = "DisableVertexAttribArray" ->
            [d EXCEPT !.enabled[d.vao] = @ \ {c.location}]
      [] c.op = "DrawElements" ->
            [d EXCEPT !.draws[d.vao] = Min(@ + 1, MaxDraws + 1)]
      [] c.op = "DeleteBuffers" ->
            [Released(d, <<"buffer", c.id>>) EXCEPT
                !.store[c.id] = NoStore,
                !.arrayBuf = IF @ = c.id THEN 0 ELSE @,
                !.elem[d.vao] = IF @ = c.id THEN 0 ELSE @]
      [] c.op = "DeleteVertexArrays" ->
            [Released(d, <<"vao", c.id>>) EXCEPT
                !.vao = IF @ = c.id THEN 0 ELSE @]
      \* destroying the window destroys the context it owns
      [] c.op = "glfwDestroyWindow" -> [d EXCEPT !.context = FALSE]
      [] OTHER -> d

\* One device call: a call that names a handle already released is
\* recorded; a call made after the context was destroyed reaches no context
\* and has no effect.
Apply(d, c) ==
    LET used == {h \in Named(c) : d.del[h] > 0}
    IN  IF d.context THEN [Effect(d, c) EXCEPT !.stale = @ \cup used] ELSE d

\* A sequence of device calls, in order.
RECURSIVE Run(_, _)
Run(d, calls) ==
    IF calls = <<>> THEN d ELSE Run(Apply(d, Head(calls)), Tail(calls))

---------------------------------------------------------------------------
(* Info logs.  The device keeps the log of the last compile or link as     *)
(* characters; INFO_LOG_LENGTH is its length with the terminator, and a    *)
(* device with an empty log answers 0 or, counting the terminator, 1.      *)

\* The characters of the logs of the model: "E".
LogChars == {69}

Logs == SeqsUpTo(LogChars, MaxLogChars)

ReportedLength(log) == IF log = <<>> THEN {0, 1} ELSE {Len(log) + 1}

\* glGet{Shader,Program}InfoLog: at most maxLength - 1 characters of the log
\* and a terminator are written to the front of the caller's buffer.
InfoLogWritten(buf, maxLength, log) ==
    IF maxLength <= 0
    THEN buf
    ELSE LET n == Min(Len(log), maxLength - 1)
         IN  [i \in 1..Len(buf) |->
                 IF i <= n THEN log[i] ELSE IF i = n + 1 THEN NUL ELSE buf[i]]

create_empty_vec_cstr(len) == [i \in 1..len |-> SPACE]
\* create_str_from_raw_cstr as it would be if it removed every trailing
\* null byte.
create_str_from_raw_cstr_trims(str) ==
    IF Len(str) = 0
    THEN Panic
    ELSE LET kept == {i \in 1..Len(str) : str[i] # NUL}
             n == IF kept = {} THEN 0
                  ELSE CHOOSE i \in kept : \A j \in kept : j <= i
         IN  SubSeq(str, 1, n)

create_str_from_raw_cstr(str) ==
    IF Len(str) = 0
    THEN Panic                                  \* str[str.len() - 1]
    ELSE IF str[Len(str)] = NUL
         THEN SubSeq(str, 1, Len(str) - 1)      \* str.pop()
         ELSE str

---------------------------------------------------------------------------
(* Shader                                                                  *)

ShaderTypes == {"VERTEX_SHADER", "FRAGMENT_SHADER"}

\* impl Drop for Shader
Shader_drop(id) == <<[op |-> "DeleteShader", id |-> id]>>

\* The test as it would be if a log of the terminator alone counted as empty.
compile_log_longer_than_terminator(info_log_length) == info_log_length > 1

\* The test of the reported log length in check_compile_error.
compile_log_present(info_log_length) == info_log_length > 0

Shader_check_compile_error(id, info_log_length, log) ==
    LET query == [op |-> "GetShaderiv", id |-> id,
                  pname |-> "INFO_LOG_LENGTH", value |-> info_log_length]
    IN  IF compile_log_present(info_log_length)
        THEN LET info_log_raw == create_empty_vec_cstr(info_log_length)
                 fetch == [op |-> "GetShaderInfoLog", id |-> id,
                           maxLength |-> info_log_length,
                           bufLen |-> Len(info_log_raw)]
                 filled == InfoLogWritten(info_log_raw, info_log_length, log)
             IN  [calls |-> <<query, fetch>>, ok |-> FALSE,
                  err |-> create_str_from_raw_cstr(filled)]
        ELSE [calls |-> <<query>>, ok |-> TRUE, err |-> <<>>]

\* Shader::new_from_source on context d; the device's compiler leaves `log`
\* and reports `info_log_length`.  On Err the local `shader` is dropped.
Shader_new_from_source(d, shader_type, info_log_length, log) ==
    LET id == d.nextObj
        create == <<[op |-> "CreateShader", type |-> shader_type, id |-> id],
                    [op |-> "ShaderSource", id |-> id],
                    [op |-> "CompileShader", id |-> id]>>
        check == Shader_check_compile_error(id, info_log_length, log)
    IN  IF check.ok
        THEN [calls |-> create \o check.calls, ok |-> TRUE, err |-> <<>>,
              id |-> id]
        ELSE [calls |-> create \o check.calls \o Shader_drop(id),
              ok |-> FALSE, err |-> check.err, id |-> id]

---------------------------------------------------------------------------
(* ShaderProgram                                                           *)

\* Uniform names are byte strings.
NameRed == <<114>>
NameProjection == <<112>>
NameInteriorNul == <<114, NUL, 112>>
UniformNames == {NameRed, NameProjection, NameInteriorNul}

\* What linking can produce: the active uniforms and their locations.
Interfaces == {(NameProjection :> 0) @@ (NameRed :> 1), (NameRed :> 0)}

\* The value-setting entry point of the type the shaders declare a uniform
\* with: "red" is a float, "projection_matrix" a 4x4 matrix.
DeclaredSetter(name) ==
    IF name = NameRed THEN "Uniform1f" ELSE "UniformMatrix4fv"

\* What the device keeps of an interface: the entry point that sets the
\* uniform at each active location.
ActiveUniforms(iface) ==
    [l \in {iface[n] : n \in DOMAIN iface} |->
        DeclaredSetter(CHOOSE n \in DOMAIN iface : iface[n] = l)]

\* glGetUniformLocation on a program linked with interface `iface`.
UniformLocation(iface, name) ==
    IF name \in DOMAIN iface THEN iface[name] ELSE -1

\* CString::new fails on a string with an interior NUL byte.
CString_new_ok(name) == \A i \in 1..Len(name) : name[i] # NUL

\* impl Drop for ShaderProgram
ShaderProgram_drop(id) == <<[op |-> "DeleteProgram", id |-> id]>>

\* The test of the reported log length in check_link_error.
link_log_present(info_log_length) == info_log_length > 0

ShaderProgram_check_link_error(id, info_log_length, log) ==
    LET query == [op |-> "GetProgramiv", id |-> id,
                  pname |-> "INFO_LOG_LENGTH", value |-> info_log_length]
    IN  IF link_log_present(info_log_length)
        THEN LET info_log_raw == create_empty_vec_cstr(info_log_length)
                 fetch == [op |-> "GetProgramInfoLog", id |-> id,
                           maxLength |-> info_log_length,
                           bufLen |-> Len(info_log_raw)]
                 filled == InfoLogWritten(info_log_raw, info_log_length, log)
             IN  [calls |-> <<query, fetch>>, ok |-> FALSE,
                  err |-> create_str_from_raw_cstr(filled)]
        ELSE [calls |-> <<query>>, ok |-> TRUE, err |-> <<>>]

\* for shader in shaders.iter() { AttachShader }
attach_shaders(program, shs) ==
    [i \in 1..Len(shs) |->
        [op |-> "AttachShader", program |-> program, shader |-> shs[i]]]

\* detach_shaders as it would be if each shader were dropped before it is
\* detached.
RECURSIVE detach_shaders_after_drop(_, _)
detach_shaders_after_drop(program, shs) ==
    IF shs = <<>>
    THEN <<>>
    ELSE Shader_drop(Head(shs))
            \o <<[op |-> "DetachShader", program |-> program,
                  shader |-> Head(shs)]>>
            \o detach_shaders_after_drop(program, Tail(shs))

\* for shader in shaders.into_iter() { DetachShader }: each shader is moved
\* out of the vector and dropped at the end of its iteration.
RECURSIVE detach_shaders(_, _)
detach_shaders(program, shs) ==
    IF shs = <<>>
    THEN <<>>
    ELSE <<[op |-> "DetachShader", program |-> program, shader |-> Head(shs)]>>
            \o Shader_drop(Head(shs))
            \o detach_shaders(program, Tail(shs))

\* drop_shaders as it would be if the vector were forgotten, not dropped.
drop_shaders_forgotten(shs) == <<>>

\* Dropping a Vec<Shader> drops its elements in order.
RECURSIVE drop_shaders(_)
drop_shaders(shs) ==
    IF shs = <<>> THEN <<>> ELSE Shader_drop(Head(shs)) \o drop_shaders(Tail(shs))

\* locate_uniforms as it would be if a negative location were inserted too.
RECURSIVE locate_uniforms_keeps_misses(_, _, _, _)
locate_uniforms_keeps_misses(program, names, table, iface) ==
    IF names = <<>>
    THEN [calls |-> <<>>, uniforms |-> table, panicked |-> FALSE]
    ELSE IF ~CString_new_ok(Head(names))
    THEN [calls |-> <<>>, uniforms |-> table, panicked |-> TRUE]
    ELSE LET location == UniformLocation(iface, Head(names))
             lookup == [op |-> "GetUniformLocation", id |-> program,
                        name |-> Head(names), value |-> location]
             rest == locate_uniforms_keeps_misses(
                         program, Tail(names),
                         (Head(names) :> location) @@ table, iface)
         IN  [rest EXCEPT !.calls = <<lookup>> \o @]

\* for uniform_name in uniforms.into_iter() { ... }: the loop stops with a
\* panic at the first name CString::new refuses.
RECURSIVE locate_uniforms(_, _, _, _)
locate_uniforms(program, names, table, iface) ==
    IF names = <<>>
    THEN [calls |-> <<>>, uniforms |-> table, panicked |-> FALSE]
    ELSE IF ~CString_new_ok(Head(names))
    THEN [calls |-> <<>>, uniforms |-> table, panicked |-> TRUE]
    ELSE LET location == UniformLocation(iface, Head(names))
             lookup == [op |-> "GetUniformLocation", id |-> program,
                        name |-> Head(names), value |-> location]
             next == IF location < 0
                     THEN table
                     ELSE (Head(names) :> location) @@ table
             rest == locate_uniforms(program, Tail(names), next, iface)
         IN  [rest EXCEPT !.calls = <<lookup>> \o @]

\* linked_program as it would be if the uniforms were located before the
\* shaders are detached.
linked_program_locates_first(id, shs, uniforms, iface) ==
    LET located == locate_uniforms(id, uniforms, <<>>, iface)
    IN  IF located.panicked
        THEN [calls |-> located.calls \o ShaderProgram_drop(id)
                            \o drop_shaders(shs),
              ok |-> FALSE, panicked |-> TRUE, err |-> <<>>,
              uniforms |-> <<>>]
        ELSE [calls |-> located.calls \o detach_shaders(id, shs),
              ok |-> TRUE, panicked |-> FALSE, err |-> <<>>,
              uniforms |-> located.uniforms]

\* What new_from_shaders does once check_link_error has returned Ok.
linked_program(id, shs, uniforms, iface) ==
    LET located == locate_uniforms(id, uniforms, <<>>, iface)
    IN  IF located.panicked
        THEN [calls |-> detach_shaders(id, shs) \o located.calls
                            \o ShaderProgram_drop(id),
              ok |-> FALSE, panicked |-> TRUE, err |-> <<>>,
              uniforms |-> <<>>]
        ELSE [calls |-> detach_shaders(id, shs) \o located.calls,
              ok |-> TRUE, panicked |-> FALSE, err |-> <<>>,
              uniforms |-> located.uniforms]

\* ShaderProgram::new_from_shaders on context d.  The linker leaves `log`,
\* reports `info_log_length` and, linking, gives the program `iface`.  On
\* Err the local `program` is dropped, then the parameter `shaders`.
ShaderProgram_new_from_shaders(d, shs, uniforms, info_log_length, log, iface) ==
    LET id == d.nextObj
        build == <<[op |-> "CreateProgram", id |-> id]>>
                    \o attach_shaders(id, shs)
                    \o <<[op |-> "LinkProgram", id |-> id,
                          active |-> ActiveUniforms(iface)]>>
        check == ShaderProgram_check_link_error(id, info_log_length, log)
        done == linked_program(id, shs, uniforms, iface)
    IN  IF ~check.ok
        THEN [calls |-> build \o check.calls \o ShaderProgram_drop(id)
                            \o drop_shaders(shs),
              ok |-> FALSE, panicked |-> FALSE, err |-> check.err,
              uniforms |-> <<>>, id |-> id]
        ELSE [calls |-> build \o check.calls \o done.calls,
              ok |-> done.ok, panicked |-> done.panicked, err |-> <<>>,
              uniforms |-> done.uniforms, id |-> id]

\* The types a uniform value can have, and Uniform::set_uniform of each.
UniformTypes == {"f32", "Vec2", "Vec3", "Vec4", "Mat4"}

\* Uniform::set_uniform as it would be if every value were set as a float.
Uniform_set_uniform_as_float(ty, location) ==
    <<[op |-> "Uniform1f", location |-> location]>>

Uniform_set_uniform(ty, location) ==
    CASE ty = "f32" -> <<[op |-> "Uniform1f", location |-> location]>>
      [] ty = "Vec2" -> <<[op |-> "Uniform2f", location |-> location]>>
      [] ty = "Vec3" -> <<[op |-> "Uniform3f", location |-> location]>>
      [] ty = "Vec4" -> <<[op |-> "Uniform4f", location |-> location]>>
      [] ty = "Mat4" -> <<[op |-> "UniformMatrix4fv", location |-> location,
                           count |-> 1, transpose |-> FALSE]>>

\* set_uniform as it would be if a name missing from the table were set at
\* location -1.
ShaderProgram_set_uniform_sets_missing(id, uniforms, name, ty) ==
    [calls |-> IF name \in DOMAIN uniforms
               THEN Uniform_set_uniform(ty, uniforms[name])
               ELSE Uniform_set_uniform(ty, -1),
     uniforms |-> uniforms]

\* set_uniform as it would be if a name missing from the table were looked
\* up again and cached.
ShaderProgram_set_uniform_requeries(id, uniforms, name, ty) ==
    IF name \in DOMAIN uniforms
    THEN [calls |-> Uniform_set_uniform(ty, uniforms[name]),
          uniforms |-> uniforms]
    ELSE [calls |-> <<[op |-> "GetUniformLocation", id |-> id,
                       name |-> name, value |-> 0]>>
                        \o Uniform_set_uniform(ty, 0),
          uniforms |-> (name :> 0) @@ uniforms]

\* ShaderProgram::set_uniform on the program id with the table `uniforms`:
\* the calls, and the table afterwards (&self: it is not written).
ShaderProgram_set_uniform(id, uniforms, name, ty) ==
    [calls |-> IF name \in DOMAIN uniforms
               THEN Uniform_set_uniform(ty, uniforms[name])
               ELSE <<>>,
     uniforms |-> uniforms]

ShaderProgram_bind(id) == <<[op |-> "UseProgram", id |-> id]>>

ShaderProgram_unbind_all == <<[op |-> "UseProgram", id |-> 0]>>

\* unbind as it would be if it left the current program in place.
ShaderProgram_unbind_keeps_current(id) == <<>>

ShaderProgram_unbind(id) == ShaderProgram_unbind_all

---------------------------------------------------------------------------
(* Machine integers.  A usize (64 bits) is three limbs,                    *)
(* top * 2^62 + hi * 2^31 + lo with top < 4 and hi, lo < 2^31, so that     *)
(* every limb is a number the model checker can hold.                      *)

Two15 == 2^15
Two16 == 2^16
Two30 == 2^30
MaxI32 == (Two30 - 1) + Two30

USize(n) == [top |-> 0, hi |-> 0, lo |-> n]

\* x + y for limbs x, y: the sum modulo 2^31 and the carry.
AddLimb(x, y) ==
    IF x > MaxI32 - y
    THEN [carry |-> 1, limb |-> (x - (MaxI32 - y)) - 1]
    ELSE [carry |-> 0, limb |-> x + y]

\* x * k for a limb x and 0 <= k < 2^15.
MulLimb(x, k) ==
    LET a == x \div Two16
        b == x % Two16
        c == a * k
        low == AddLimb((c % Two15) * Two16, b * k)
    IN  [carry |-> (c \div Two15) + low.carry, limb |-> low.limb]

\* n * k in usize arithmetic (modulo 2^64).
USizeMul(n, k) ==
    LET m0 == MulLimb(n.lo, k)
        m1 == MulLimb(n.hi, k)
        h == AddLimb(m1.limb, m0.carry)
    IN  [top |-> (n.top * k + m1.carry + h.carry) % 4,
         hi |-> h.limb, lo |-> m0.limb]

\* `n as i32`: the low 32 bits, read as a signed number.
AsI32(n) == IF n.hi % 2 = 0 THEN n.lo ELSE (n.lo - Two30) - Two30

\* 2^64 - n for n # 0, in limbs.
USizeNeg(n) ==
    LET lo == IF n.lo = 0 THEN 0 ELSE (MaxI32 - n.lo) + 1
        b0 == IF n.lo = 0 THEN 0 ELSE 1
        hi == IF n.hi = 0 /\ b0 = 0 THEN 0 ELSE (MaxI32 - n.hi) + (1 - b0)
        b1 == IF n.hi = 0 /\ b0 = 0 THEN 0 ELSE 1
    IN  [top |-> (4 - n.top - b1) % 4, hi |-> hi, lo |-> lo]

\* `n as GLsizeiptr` (isize): the same 64 bits, read as a signed number,
\* given as sign and magnitude.
AsGLsizeiptr(n) ==
    IF n.top < 2
    THEN [neg |-> FALSE, mag |-> n]
    ELSE [neg |-> TRUE, mag |-> USizeNeg(n)]

---------------------------------------------------------------------------
(* Element types: std::mem::size_of and the traits Index and VertComponent *)

IndexTypes == {"GLushort", "GLuint"}

\* implement_index!(GLushort, gl::UNSIGNED_SHORT) and (GLuint, gl::UNSIGNED_INT)
Index_get_type(it) ==
    IF it = "GLushort" THEN "UNSIGNED_SHORT" ELSE "UNSIGNED_INT"

\* implement_vert_component!(Vec2, 2, ..), (Vec3, 3, ..), (Vec4, 4, ..)
ComponentCount(ty) ==
    CASE ty = "Vec2" -> 2 [] ty = "Vec3" -> 3 [] ty = "Vec4" -> 4

\* The vertex record types of the model, as their fields in declaration
\* order: Vertex of main.rs, and a record of one two-component field.
VertexTypes == {"Vertex", "Point"}

Fields(vt) ==
    IF vt = "Vertex"
    THEN <<[name |-> "pos", location |-> 0, ty |-> "Vec3"],
           [name |-> "col", location |-> 1, ty |-> "Vec3"]>>
    ELSE <<[name |-> "at", location |-> 2, ty |-> "Vec2"]>>

\* size_of: the component records are #[repr(C, packed)] records of f32,
\* a vertex record is the #[repr(C, packed)] record of its fields.
RECURSIVE SizeOf(_)
SizeOf(ty) ==
    CASE ty = "GLushort" -> 2
      [] ty = "GLuint" -> 4
      [] ty \in {"Vec2", "Vec3", "Vec4"} -> 4 * ComponentCount(ty)
      [] ty \in VertexTypes ->
            SeqSum([i \in 1..Len(Fields(ty)) |-> SizeOf(Fields(ty)[i].ty)])

---------------------------------------------------------------------------
(* The derived VertexAttrib implementation (render_derive) of a vertex     *)
(* record type, and VertComponent::attrib_pointer.                         *)

\* VertComponent::attrib_pointer(gl, location, stride, offset) of type ty
attrib_pointer(ty, location, stride, offset) ==
    [op |-> "VertexAttribPointer", location |-> location,
     size |-> ComponentCount(ty), type |-> "FLOAT", normalized |-> FALSE,
     stride |-> AsI32(USize(stride)), offset |-> offset]

\* attrib_pointer_calls as it would be if the offset were never incremented.
attrib_pointer_calls_at_zero(fields, i, stride, offset) ==
    [j \in 1..((Len(fields) + 1) - i) |->
        attrib_pointer(fields[(i + j) - 1].ty, fields[(i + j) - 1].location,
                       stride, 0)]

\* The statements generated for the fields from the i-th on, `offset` being
\* the running byte offset.
RECURSIVE attrib_pointer_calls(_, _, _, _)
attrib_pointer_calls(fields, i, stride, offset) ==
    IF i > Len(fields)
    THEN <<>>
    ELSE <<attrib_pointer(fields[i].ty, fields[i].location, stride,
                          AsI32(USize(offset)))>>
            \o attrib_pointer_calls(fields, i + 1, stride,
                                    offset + SizeOf(fields[i].ty))

setup_attrib_pointer(vt) == attrib_pointer_calls(Fields(vt), 1, SizeOf(vt), 0)

enable_attribs(vt) ==
    [i \in 1..Len(Fields(vt)) |->
        [op |-> "EnableVertexAttribArray", location |-> Fields(vt)[i].location]]

disable_attribs(vt) ==
    [i \in 1..Len(Fields(vt)) |->
        [op |-> "DisableVertexAttribArray", location |-> Fields(vt)[i].location]]

---------------------------------------------------------------------------
(* The derivation itself (render_derive): from the syntax of the item that *)
(* carries #[derive(VertexAttribPointers)] to the generated functions.  A  *)
(* panic of the macro fails the build.                                     *)

\* #[location ...] of a field: missing, or the meta item it parses to; the
\* literal of a name-value item is a string or an integer, `over` when the
\* integer does not fit a u32.
LocationAttrs ==
    {[meta |-> "missing"], [meta |-> "Path"], [meta |-> "List"],
     [meta |-> "NameValue", lit |-> "Str"]}
        \cup {[meta |-> "NameValue", lit |-> "Int", value |-> v, over |-> o] :
                    v \in 0..1, o \in BOOLEAN}

ComponentTypes == {"Vec2", "Vec3", "Vec4"}

DeriveFields == [attr : LocationAttrs, ty : ComponentTypes]

\* The items handed to the derivation.
DeriveInputs ==
    {[data |-> "Enum"], [data |-> "Union"],
     [data |-> "Struct", fields |-> "Unit"],
     [data |-> "Struct", fields |-> "Unnamed"]}
        \cup {[data |-> "Struct", fields |-> "Named", named |-> fs] :
                    fs \in SeqsUpTo(DeriveFields, MaxFields)}

\* The field call as it would be if a field without #[location] were given
\* location 0.
generate_struct_field_call_defaults_location(field) ==
    LET attr == field.attr
    IN  IF attr.meta = "missing"
        THEN [panicked |-> FALSE, location |-> 0, ty |-> field.ty]
        ELSE IF attr.meta # "NameValue" \/ attr.lit # "Int" \/ attr.over
        THEN [panicked |-> TRUE]
        ELSE [panicked |-> FALSE, location |-> attr.value, ty |-> field.ty]

\* generate_struct_field_vertex_attrib_pointer_call: the location and the
\* type the three generated statements of a field use, or a panic.
generate_struct_field_vertex_attrib_pointer_call(field) ==
    LET attr == field.attr
    IN  IF attr.meta = "missing"
        THEN [panicked |-> TRUE]            \* is missing #[location = ?]
        ELSE IF attr.meta # "NameValue"
        THEN [panicked |-> TRUE]            \* Invalid named attribute
        ELSE IF attr.lit # "Int"
        THEN [panicked |-> TRUE]            \* Invalid location attribute value
        ELSE IF attr.over
        THEN [panicked |-> TRUE]            \* base10_parse::<u32>().unwrap()
        ELSE [panicked |-> FALSE, location |-> attr.value, ty |-> field.ty]

\* generate_vertex_calls: the pieces of every field, in declaration order.
generate_vertex_calls(body) ==
    IF body.data # "Struct" \/ body.fields # "Named"
    THEN [panicked |-> TRUE, pieces |-> <<>>]
    ELSE LET pieces ==
                [i \in 1..Len(body.named) |->
                    generate_struct_field_vertex_attrib_pointer_call(
                        body.named[i])]
         IN  IF \E i \in 1..Len(pieces) : pieces[i].panicked
             THEN [panicked |-> TRUE, pieces |-> <<>>]
             ELSE [panicked |-> FALSE, pieces |-> pieces]

\* generate_impl: the calls the three generated functions make.  The stride
\* is size_of::<Self>(), the sum of the sizes of the fields (records of f32
\* need no padding).
generate_impl(ast) ==
    LET fields_pieces == generate_vertex_calls(ast)
        pieces == fields_pieces.pieces
        stride == SeqSum([i \in 1..Len(pieces) |-> SizeOf(pieces[i].ty)])
    IN  [panicked |-> fields_pieces.panicked,
         stride |-> stride,
         setup_attrib_pointer |-> attrib_pointer_calls(pieces, 1, stride, 0),
         enable_attribs |->
            [i \in 1..Len(pieces) |->
                [op |-> "EnableVertexAttribArray",
                 location |-> pieces[i].location]],
         disable_attribs |->
            [i \in 1..Len(pieces) |->
                [op |-> "DisableVertexAttribArray",
                 location |-> pieces[i].location]]]

---------------------------------------------------------------------------
(* Buffer<BufferType>                                                      *)

Targets == {"ARRAY_BUFFER", "ELEMENT_ARRAY_BUFFER"}
Usages == {"STATIC_DRAW", "DYNAMIC_DRAW"}

Buffer_new(d) == <<[op |-> "GenBuffers", id |-> d.nextBuf]>>

Buffer_bind(id, location) ==
    <<[op |-> "BindBuffer", target |-> location, id |-> id]>>

Buffer_unbind_all(location) ==
    <<[op |-> "BindBuffer", target |-> location, id |-> 0]>>

Buffer_unbind(id, location) == Buffer_unbind_all(location)

\* buffer_raw as it would be without its closing unbind.
Buffer_buffer_raw_stays_bound(id, location, usage, size, bind) ==
    (IF bind THEN Buffer_bind(id, location) ELSE <<>>)
        \o <<[op |-> "BufferData", target |-> location,
              size |-> AsGLsizeiptr(size), usage |-> usage]>>

Buffer_buffer_raw(id, location, usage, size, bind) ==
    (IF bind THEN Buffer_bind(id, location) ELSE <<>>)
        \o <<[op |-> "BufferData", target |-> location,
              size |-> AsGLsizeiptr(size), usage |-> usage]>>
        \o (IF bind THEN Buffer_unbind(id, location) ELSE <<>>)
\* Buffer_buffer as it would be if it passed the element count as the size.
Buffer_buffer_counts_elements(id, ty, location, usage, len, bind) ==
    Buffer_buffer_raw(id, location, usage, len, bind)

\* Buffer::buffer of a Buffer<ty> with a vector of `len` elements
Buffer_buffer(id, ty, location, usage, len, bind) ==
    Buffer_buffer_raw(id, location, usage, USizeMul(len, SizeOf(ty)), bind)

\* impl<T> Drop for Buffer<T>
Buffer_drop(id) == <<[op |-> "DeleteBuffers", id |-> id]>>

---------------------------------------------------------------------------
(* VertexArray                                                             *)

VertexArray_new(d) == <<[op |-> "GenVertexArrays", id |-> d.nextVao]>>

VertexArray_bind(id) == <<[op |-> "BindVertexArray", id |-> id]>>

VertexArray_unbind_all == <<[op |-> "BindVertexArray", id |-> 0]>>

VertexArray_unbind(id) == VertexArray_unbind_all

\* impl Drop for VertexArray
VertexArray_drop(id) == <<[op |-> "DeleteVertexArrays", id |-> id]>>

---------------------------------------------------------------------------
(* Mesh<VertexType, IndexType>                                             *)

\* Mesh_create as it would be if the vertex buffer were unbound before the
\* attribute pointers are set up.
Mesh_create_unbinds_first(d, vt, it, vertex_len, index_len) ==
    LET vao == d.nextVao
        vbo == d.nextBuf
        ebo == d.nextBuf + 1
    IN  [calls |->
            VertexArray_new(d)
                \o VertexArray_bind(vao)
                \o Buffer_new(d)
                \o Buffer_bind(vbo, "ARRAY_BUFFER")
                \o Buffer_buffer(vbo, vt, "ARRAY_BUFFER", "STATIC_DRAW",
                                 vertex_len, FALSE)
                \o Buffer_unbind(vbo, "ARRAY_BUFFER")
                \o setup_attrib_pointer(vt)
                \o Buffer_new([d EXCEPT !.nextBuf = ebo])
                \o Buffer_buffer(ebo, it, "ELEMENT_ARRAY_BUFFER",
                                 "STATIC_DRAW", index_len, TRUE)
                \o VertexArray_unbind(vao),
         mesh |-> [vao |-> vao, vbo |-> vbo, ebo |-> ebo,
                   indices |-> index_len, vt |-> vt, it |-> it,
                   renders |-> 0]]

\* Mesh::create on context d, of vertex_len vertices and index_len indices
Mesh_create(d, vt, it, vertex_len, index_len) ==
    LET vao == d.nextVao
        vbo == d.nextBuf
        ebo == d.nextBuf + 1
    IN  [calls |->
            VertexArray_new(d)
                \o VertexArray_bind(vao)
                \o Buffer_new(d)
                \o Buffer_bind(vbo, "ARRAY_BUFFER")
                \o Buffer_buffer(vbo, vt, "ARRAY_BUFFER", "STATIC_DRAW",
                                 vertex_len, FALSE)
                \o setup_attrib_pointer(vt)
                \o Buffer_unbind(vbo, "ARRAY_BUFFER")
                \o Buffer_new([d EXCEPT !.nextBuf = ebo])
                \o Buffer_buffer(ebo, it, "ELEMENT_ARRAY_BUFFER",
                                 "STATIC_DRAW", index_len, TRUE)
                \o VertexArray_unbind(vao),
         mesh |-> [vao |-> vao, vbo |-> vbo, ebo |-> ebo,
                   indices |-> index_len, vt |-> vt, it |-> it,
                   renders |-> 0]]

\* The index scalar type render passes to the draw call.
render_index_type(it) == "UNSIGNED_SHORT"
\* Mesh_render as it would be if it bound the index buffer before the vertex
\* array.
Mesh_render_binds_ebo_first(m) ==
    Buffer_bind(m.ebo, "ELEMENT_ARRAY_BUFFER")
        \o VertexArray_bind(m.vao)
        \o enable_attribs(m.vt)
        \o <<[op |-> "DrawElements", mode |-> "TRIANGLES",
              count |-> AsI32(m.indices), type |-> render_index_type(m.it),
              offset |-> 0]>>
        \o disable_attribs(m.vt)
        \o Buffer_unbind(m.ebo, "ELEMENT_ARRAY_BUFFER")
        \o VertexArray_unbind(m.vao)

\* Mesh_render as it would be if it returned right after the draw call.
Mesh_render_returns_early(m) ==
    VertexArray_bind(m.vao)
        \o Buffer_bind(m.ebo, "ELEMENT_ARRAY_BUFFER")
        \o enable_attribs(m.vt)
        \o <<[op |-> "DrawElements", mode |-> "TRIANGLES",
              count |-> AsI32(m.indices), type |-> render_index_type(m.it),
              offset |-> 0]>>

\* Mesh::render
Mesh_render(m) ==
    VertexArray_bind(m.vao)
        \o Buffer_bind(m.ebo, "ELEMENT_ARRAY_BUFFER")
        \o enable_attribs(m.vt)
        \o <<[op |-> "DrawElements", mode |-> "TRIANGLES",
              count |-> AsI32(m.indices), type |-> render_index_type(m.it),
              offset |-> 0]>>
        \o disable_attribs(m.vt)
        \o Buffer_unbind(m.ebo, "ELEMENT_ARRAY_BUFFER")
        \o VertexArray_unbind(m.vao)

\* Mesh_drop as it would be if it released the vertex buffer in the place of
\* the index buffer.
Mesh_drop_vbo_twice(m) ==
    VertexArray_drop(m.vao) \o Buffer_drop(m.vbo) \o Buffer_drop(m.vbo)

\* Mesh_drop as it would be if Mesh did not own its vertex buffer.
Mesh_drop_without_vbo(m) == VertexArray_drop(m.vao) \o Buffer_drop(m.ebo)

\* Dropping a Mesh drops its fields in declaration order: vao, vbo, ebo.
Mesh_drop(m) ==
    VertexArray_drop(m.vao) \o Buffer_drop(m.vbo) \o Buffer_drop(m.ebo)

---------------------------------------------------------------------------
(* The inputs of the operations.                                           *)

\* Lengths of the vertex and index vectors handed to Mesh::create and
\* Buffer::buffer; the last index length does not fit an i32.
VertexLens == {USize(4)}
IndexLens == {USize(0), USize(6), [top |-> 0, hi |-> 1, lo |-> 6]}
BufferTypes == {"GLushort", "Vertex"}

\* The uniform name lists handed to new_from_shaders.
UniformRequests ==
    {<<>>,
     <<NameProjection, NameRed>>,
     <<NameRed, NameInteriorNul, NameProjection>>}

\* The vectors of distinct shaders taken from a set of live shaders.
ShaderVecs(S) ==
    {v \in SeqsUpTo(S, Min(Cardinality(S), MaxShaders)) :
        \A i, j \in 1..Len(v) : i # j => v[i] # v[j]}

Range(f) == {f[x] : x \in DOMAIN f}

Remove(f, x) == [y \in DOMAIN f \ {x} |-> f[y]]

\* The names the device has handed out.
Allocated(d) == (d.nextObj - 1) + (d.nextBuf - 1) + (d.nextVao - 1)

---------------------------------------------------------------------------
(* The Gl handle (gl_bindings): a reference-counted function table.  Every *)
(* wrapper constructor stores a clone of the handle it is given, and every *)
(* wrapper's destruction drops that clone after its release call.          *)

\* Gl::load_with: one handle, held by the caller.
GlInit == [strong |-> 1, caller |-> TRUE]

\* Gl_clones as it would be if Buffer::new borrowed the handle and did not
\* clone it.
Gl_clones_buffers_borrow(calls) ==
    Cardinality({i \in DOMAIN calls :
        calls[i].op \in {"CreateShader", "CreateProgram", "GenVertexArrays"}})

\* The clones made while a call sequence is issued: Shader::new,
\* ShaderProgram::new, Buffer::new and VertexArray::new each clone the
\* handle once, beside the one call that creates their object.
Gl_clones(calls) ==
    Cardinality({i \in DOMAIN calls :
        calls[i].op \in {"CreateShader", "CreateProgram", "GenBuffers",
                         "GenVertexArrays"}})

\* The clones dropped while a call sequence is issued: one with every
\* wrapper destroyed, after the one release call of its Drop.
Gl_drops(calls) ==
    Cardinality({i \in DOMAIN calls :
        calls[i].op \in {"DeleteShader", "DeleteProgram", "DeleteBuffers",
                         "DeleteVertexArrays"}})

\* The handle after an operation that issued `calls` and made (or, if
\* negative, dropped) `own` clones of its own: Mesh keeps one beside those
\* of its vertex array and buffers.
Held(g, calls, own) ==
    [g EXCEPT !.strong = @ + Gl_clones(calls) - Gl_drops(calls) + own]

---------------------------------------------------------------------------
(* The application (main.rs): App::new, the game loop, and the drop of App *)

\* main() before App::new.  `pc` is where main() is: "main", then "loop"
\* (the test of the while loop), "tick" (events handled, loop_tick next),
\* "returned" (start_game has returned), "panicked" (unwinding out of the
\* loop), "dropped" (app destroyed) or "aborted" (App::new panicked).  `red`
\* is in units of 1/RedSteps.
AppInit ==
    [pc |-> "main", shader |-> 0, mesh |-> 0, should_close |-> FALSE,
     frames |-> 0, dir |-> FALSE, red |-> 0]

\* self.red changes by 1.0 / 120.0 with every tick.
RedSteps == 120

\* The uniforms create_shader_program asks for.
AppUniforms == <<NameProjection, NameRed>>

\* The window events handle_window_event tells apart.
WindowEvents == {"FramebufferSize", "KeyEscapePress", "Other"}

\* What SystemTime::now().duration_since(last_print_time) can be: an error
\* (the system clock was set back), less than a second, a second or more.
Clocks == {"backwards", "within", "elapsed"}

\* App::create_shader_program on context d; vert, frag and link are the
\* logs the compiler and the linker leave, with their reported lengths.
\* On Err of the fragment shader, `?` returns and vert_shader is dropped.
App_create_shader_program(d, vert, frag, link, iface) ==
    LET v == Shader_new_from_source(d, "VERTEX_SHADER", vert.len, vert.log)
        d1 == Run(d, v.calls)
        f == Shader_new_from_source(d1, "FRAGMENT_SHADER", frag.len, frag.log)
        d2 == Run(d1, f.calls)
        p == ShaderProgram_new_from_shaders(d2, <<v.id, f.id>>, AppUniforms,
                                            link.len, link.log, iface)
    IN  IF ~v.ok
        THEN [calls |-> v.calls, ok |-> FALSE, id |-> 0, uniforms |-> <<>>]
        ELSE IF ~f.ok
        THEN [calls |-> v.calls \o f.calls \o Shader_drop(v.id),
              ok |-> FALSE, id |-> 0, uniforms |-> <<>>]
        ELSE [calls |-> v.calls \o f.calls \o p.calls, ok |-> p.ok,
              id |-> p.id, uniforms |-> p.uniforms]

\* App::init_test_mesh on context d: 4 vertices and 6 indices.
App_init_test_mesh(d) ==
    Mesh_create(d, "Vertex", "GLushort", USize(4), USize(6))

\* App::new and the lines of main() up to start_game, from the results sp
\* of create_shader_program (unwrap: Err panics) and m of init_test_mesh,
\* which runs after it; then the clear colour.
App_new(sp, m) ==
    IF ~sp.ok
    THEN [calls |-> sp.calls, ok |-> FALSE, shader |-> 0,
          uniforms |-> <<>>, mesh |-> m.mesh]
    ELSE [calls |-> sp.calls \o m.calls \o <<[op |-> "ClearColor"]>>,
          ok |-> TRUE, shader |-> sp.id, uniforms |-> sp.uniforms,
          mesh |-> m.mesh]

\* The red and dir fields after the "uniform testing" lines of loop_tick.
App_red(a) ==
    IF a.dir
    THEN [red |-> a.red + 1, dir |-> IF a.red + 1 >= RedSteps THEN ~a.dir ELSE a.dir]
    ELSE [red |-> a.red - 1, dir |-> IF a.red - 1 <= 0 THEN ~a.dir ELSE a.dir]

\* loop_tick as it would be if the program were unbound before the draw.
App_loop_tick_unbinds_early(a, uniforms, m) ==
    <<[op |-> "Clear"]>>
        \o ShaderProgram_bind(a.shader)
        \o ShaderProgram_set_uniform(a.shader, uniforms, NameRed, "f32").calls
        \o ShaderProgram_set_uniform(a.shader, uniforms, NameProjection,
                                     "Mat4").calls
        \o ShaderProgram_unbind(a.shader)
        \o Mesh_render(m)
        \o <<[op |-> "glfwSwapBuffers"]>>

\* The calls of App::loop_tick up to swap_buffers, for the App a whose
\* program has the table `uniforms` and whose mesh is m.
App_loop_tick(a, uniforms, m) ==
    <<[op |-> "Clear"]>>
        \o ShaderProgram_bind(a.shader)
        \o ShaderProgram_set_uniform(a.shader, uniforms, NameRed, "f32").calls
        \o ShaderProgram_set_uniform(a.shader, uniforms, NameProjection,
                                     "Mat4").calls
        \o Mesh_render(m)
        \o ShaderProgram_unbind(a.shader)
        \o <<[op |-> "glfwSwapBuffers"]>>

\* App::update_frame_counter: the frame count to show, or -1; `frames`
\* afterwards; a clock set back makes duration_since(..).unwrap() panic.
App_update_frame_counter(a, clock) ==
    CASE clock = "backwards" ->
            [panicked |-> TRUE, fps |-> -1, frames |-> a.frames]
      [] clock = "elapsed" ->
            [panicked |-> FALSE, fps |-> a.frames, frames |-> 0]
      [] clock = "within" ->
            [panicked |-> FALSE, fps |-> -1, frames |-> a.frames + 1]

\* App::handle_window_event for every event of a batch, in order: the
\* calls, and whether the window has been told to close.
RECURSIVE App_handle_window_events(_)
App_handle_window_events(e) ==
    IF e = <<>>
    THEN [calls |-> <<>>, close |-> FALSE]
    ELSE LET rest == App_handle_window_events(Tail(e))
         IN  CASE Head(e) = "FramebufferSize" ->
                    [calls |-> <<[op |-> "Viewport"]>> \o rest.calls,
                     close |-> rest.close]
               [] Head(e) = "KeyEscapePress" ->
                    [calls |-> rest.calls, close |-> TRUE]
               [] OTHER -> rest

\* App_drop as it would be if the window were declared after the mesh.
App_drop_window_last(a, m) ==
    ShaderProgram_drop(a.shader) \o Mesh_drop(m)
        \o <<[op |-> "glfwDestroyWindow"]>>

\* Dropping App drops its fields in declaration order: glfw, window (which
\* destroys the window and its context), events, shader, mesh, ..., gl.
App_drop(a, m) ==
    <<[op |-> "glfwDestroyWindow"]>>
        \o ShaderProgram_drop(a.shader) \o Mesh_drop(m)

---------------------------------------------------------------------------
(* The state after construction of the context: no object exists.          *)

Init ==
    /\ dev = DevInit
    /\ gl = GlInit
    /\ app = AppInit
    /\ shaders = {}
    /\ programs = <<>>
    /\ buffers = <<>>
    /\ vaos = {}
    /\ meshes = <<>>
    /\ last = [op |-> "init", calls |-> <<>>]

---------------------------------------------------------------------------
(* Shader and ShaderProgram operations.  An action takes the sets its      *)
(* inputs and the device's answers are drawn from; an action that creates  *)
(* objects takes the number of names the device may hand out.              *)

NewShader(logs, limit) ==
    /\ gl.caller
    /\ Allocated(dev) < limit
    /\ \E shader_type \in ShaderTypes, compiles \in BOOLEAN, log \in logs :
       \E info_log_length \in ReportedLength(log) :
        LET r == Shader_new_from_source(dev, shader_type, info_log_length, log)
        IN  /\ dev' = Run(dev, r.calls)
            /\ gl' = Held(gl, r.calls, 0)
            /\ shaders' = IF r.ok THEN shaders \cup {r.id} ELSE shaders
            /\ last' = [op |-> "Shader::new_from_source", calls |-> r.calls,
                        ok |-> r.ok, err |-> r.err, id |-> r.id,
                        compiles |-> compiles, log |-> log,
                        info_log_length |-> info_log_length]
    /\ UNCHANGED <<programs, buffers, vaos, meshes, app>>

DropShader ==
    /\ \E id \in shaders :
        /\ dev' = Run(dev, Shader_drop(id))
        /\ gl' = Held(gl, Shader_drop(id), 0)
        /\ shaders' = shaders \ {id}
        /\ last' = [op |-> "drop Shader", calls |-> Shader_drop(id), id |-> id]
    /\ UNCHANGED <<programs, buffers, vaos, meshes, app>>

NewProgram(requests, logs, ifaces, limit) ==
    /\ gl.caller
    /\ Allocated(dev) < limit
    /\ \E shs \in ShaderVecs(shaders), uniforms \in requests,
          log \in logs, iface \in ifaces :
       \E info_log_length \in ReportedLength(log) :
        LET r == ShaderProgram_new_from_shaders(dev, shs, uniforms,
                                                info_log_length, log, iface)
        IN  /\ dev' = Run(dev, r.calls)
            /\ gl' = Held(gl, r.calls, 0)
            /\ shaders' = shaders \ Range(shs)
            /\ programs' = IF r.ok THEN (r.id :> r.uniforms) @@ programs
                                   ELSE programs
            /\ last' = [op |-> "ShaderProgram::new_from_shaders",
                        calls |-> r.calls, ok |-> r.ok,
                        panicked |-> r.panicked, err |-> r.err, id |-> r.id,
                        shaders |-> shs, uniforms |-> uniforms, log |-> log,
                        info_log_length |-> info_log_length, iface |-> iface]
    /\ UNCHANGED <<buffers, vaos, meshes, app>>

BindProgram ==
    /\ \E id \in DOMAIN programs :
        /\ dev' = Run(dev, ShaderProgram_bind(id))
        /\ gl' = Held(gl, ShaderProgram_bind(id), 0)
        /\ last' = [op |-> "ShaderProgram::bind",
                    calls |-> ShaderProgram_bind(id), id |-> id,
                    before |-> dev.program]
    /\ UNCHANGED <<shaders, programs, buffers, vaos, meshes, app>>

UnbindProgram ==
    /\ \E id \in DOMAIN programs :
        /\ dev' = Run(dev, ShaderProgram_unbind(id))
        /\ gl' = Held(gl, ShaderProgram_unbind(id), 0)
        /\ last' = [op |-> "ShaderProgram::unbind",
                    calls |-> ShaderProgram_unbind(id), id |-> id,
                    before |-> dev.program]
    /\ UNCHANGED <<shaders, programs, buffers, vaos, meshes, app>>

SetUniform(names, types) ==
    /\ \E id \in DOMAIN programs, name \in names, ty \in types :
        LET r == ShaderProgram_set_uniform(id, programs[id], name, ty)
        IN  /\ dev' = Run(dev, r.calls)
            /\ gl' = Held(gl, r.calls, 0)
            /\ programs' = [programs EXCEPT ![id] = r.uniforms]
            /\ last' = [op |-> "ShaderProgram::set_uniform",
                        calls |-> r.calls, id |-> id, name |-> name,
                        type |-> ty, uniforms |-> programs[id],
                        before |-> dev.program]
    /\ UNCHANGED <<shaders, buffers, vaos, meshes, app>>

DropProgram ==
    /\ \E id \in DOMAIN programs :
        /\ dev' = Run(dev, ShaderProgram_drop(id))
        /\ gl' = Held(gl, ShaderProgram_drop(id), 0)
        /\ programs' = Remove(programs, id)
        /\ last' = [op |-> "drop ShaderProgram",
                    calls |-> ShaderProgram_drop(id), id |-> id]
    /\ UNCHANGED <<shaders, buffers, vaos, meshes, app>>

---------------------------------------------------------------------------
(* The derivation of VertexAttrib for an item, at build time.              *)

\* An item carrying #[derive(VertexAttribPointers)] is compiled.
InitDerive ==
    /\ dev = DevInit
    /\ gl = GlInit
    /\ app = AppInit
    /\ shaders = {}
    /\ programs = <<>>
    /\ buffers = <<>>
    /\ vaos = {}
    /\ meshes = <<>>
    /\ last \in {[op |-> "item", calls |-> <<>>, ast |-> ast] :
                    ast \in DeriveInputs}

Derive ==
    /\ last.op = "item"
    /\ LET r == generate_impl(last.ast)
        IN  last' = [op |-> "derive(VertexAttribPointers)", calls |-> <<>>,
                     ast |-> last.ast, ok |-> ~r.panicked,
                     stride |-> r.stride,
                     setup_attrib_pointer |-> r.setup_attrib_pointer,
                     enable_attribs |-> r.enable_attribs,
                     disable_attribs |-> r.disable_attribs]
    /\ UNCHANGED <<dev, shaders, programs, buffers, vaos, meshes, gl, app>>

---------------------------------------------------------------------------
(* Buffer and VertexArray operations.                                      *)

NewBuffer(types, limit) ==
    /\ gl.caller
    /\ Allocated(dev) < limit
    /\ \E ty \in types :
        /\ dev' = Run(dev, Buffer_new(dev))
        /\ gl' = Held(gl, Buffer_new(dev), 0)
        /\ buffers' = (dev.nextBuf :> ty) @@ buffers
        /\ last' = [op |-> "Buffer::new", calls |-> Buffer_new(dev),
                    id |-> dev.nextBuf]
    /\ UNCHANGED <<shaders, programs, vaos, meshes, app>>

BindBuffer ==
    /\ \E id \in DOMAIN buffers, location \in Targets :
        /\ dev' = Run(dev, Buffer_bind(id, location))
        /\ gl' = Held(gl, Buffer_bind(id, location), 0)
        /\ last' = [op |-> "Buffer::bind", calls |-> Buffer_bind(id, location),
                    id |-> id, location |-> location]
    /\ UNCHANGED <<shaders, programs, buffers, vaos, meshes, app>>

UnbindBuffer ==
    /\ \E id \in DOMAIN buffers, location \in Targets :
        /\ dev' = Run(dev, Buffer_unbind(id, location))
        /\ gl' = Held(gl, Buffer_unbind(id, location), 0)
        /\ last' = [op |-> "Buffer::unbind",
                    calls |-> Buffer_unbind(id, location),
                    id |-> id, location |-> location]
    /\ UNCHANGED <<shaders, programs, buffers, vaos, meshes, app>>

BufferData(targets, usages, lens, binds) ==
    /\ \E id \in DOMAIN buffers, location \in targets, usage \in usages,
          len \in lens, bind \in binds :
        LET calls == Buffer_buffer(id, buffers[id], location, usage, len, bind)
        IN  /\ dev' = Run(dev, calls)
            /\ gl' = Held(gl, calls, 0)
            /\ last' = [op |-> "Buffer::buffer", calls |-> calls, id |-> id,
                        location |-> location, usage |-> usage, len |-> len,
                        bind |-> bind]
    /\ UNCHANGED <<shaders, programs, buffers, vaos, meshes, app>>

DropBuffer ==
    /\ \E id \in DOMAIN buffers :
        /\ dev' = Run(dev, Buffer_drop(id))
        /\ gl' = Held(gl, Buffer_drop(id), 0)
        /\ buffers' = Remove(buffers, id)
        /\ last' = [op |-> "drop Buffer", calls |-> Buffer_drop(id), id |-> id]
    /\ UNCHANGED <<shaders, programs, vaos, meshes, app>>

NewVertexArray(limit) ==
    /\ gl.caller
    /\ Allocated(dev) < limit
    /\ dev' = Run(dev, VertexArray_new(dev))
    /\ gl' = Held(gl, VertexArray_new(dev), 0)
    /\ vaos' = vaos \cup {dev.nextVao}
    /\ last' = [op |-> "VertexArray::new", calls |-> VertexArray_new(dev),
                id |-> dev.nextVao]
    /\ UNCHANGED <<shaders, programs, buffers, meshes, app>>

BindVertexArray ==
    /\ \E id \in vaos :
        /\ dev' = Run(dev, VertexArray_bind(id))
        /\ gl' = Held(gl, VertexArray_bind(id), 0)
        /\ last' = [op |-> "VertexArray::bind",
                    calls |-> VertexArray_bind(id), id |-> id]
    /\ UNCHANGED <<shaders, programs, buffers, vaos, meshes, app>>

UnbindVertexArray ==
    /\ \E id \in vaos :
        /\ dev' = Run(dev, VertexArray_unbind(id))
        /\ gl' = Held(gl, VertexArray_unbind(id), 0)
        /\ last' = [op |-> "VertexArray::unbind",
                    calls |-> VertexArray_unbind(id), id |-> id]
    /\ UNCHANGED <<shaders, programs, buffers, vaos, meshes, app>>

DropVertexArray ==
    /\ \E id \in vaos :
        /\ dev' = Run(dev, VertexArray_drop(id))
        /\ gl' = Held(gl, VertexArray_drop(id), 0)
        /\ vaos' = vaos \ {id}
        /\ last' = [op |-> "drop VertexArray",
                    calls |-> VertexArray_drop(id), id |-> id]
    /\ UNCHANGED <<shaders, programs, buffers, meshes, app>>

---------------------------------------------------------------------------
(* Mesh operations.                                                        *)

CreateMesh(vertex_types, index_types, index_lens, limit) ==
    /\ gl.caller
    /\ Allocated(dev) + 2 < limit
    /\ \E vt \in vertex_types, it \in index_types,
          vertex_len \in VertexLens, index_len \in index_lens :
        LET r == Mesh_create(dev, vt, it, vertex_len, index_len)
        IN  /\ dev' = Run(dev, r.calls)
            /\ gl' = Held(gl, r.calls, 1)
            /\ meshes' = (r.mesh.vao :> r.mesh) @@ meshes
            /\ last' = [op |-> "Mesh::create", calls |-> r.calls,
                        id |-> r.mesh.vao, mesh |-> r.mesh,
                        vertex_len |-> vertex_len, index_len |-> index_len]
    /\ UNCHANGED <<shaders, programs, buffers, vaos, app>>

RenderMesh ==
    /\ \E id \in DOMAIN meshes :
        /\ meshes[id].renders < MaxDraws
        /\ dev' = Run(dev, Mesh_render(meshes[id]))
        /\ gl' = Held(gl, Mesh_render(meshes[id]), 0)
        /\ meshes' = [meshes EXCEPT ![id].renders = @ + 1]
        /\ last' = [op |-> "Mesh::render", calls |-> Mesh_render(meshes[id]),
                    id |-> id, mesh |-> meshes'[id]]
    /\ UNCHANGED <<shaders, programs, buffers, vaos, app>>

DropMesh ==
    /\ \E id \in DOMAIN meshes :
        /\ dev' = Run(dev, Mesh_drop(meshes[id]))
        /\ gl' = Held(gl, Mesh_drop(meshes[id]), -1)
        /\ meshes' = Remove(meshes, id)
        /\ last' = [op |-> "drop Mesh", calls |-> Mesh_drop(meshes[id]),
                    id |-> id, mesh |-> meshes[id]]
    /\ UNCHANGED <<shaders, programs, buffers, vaos, app>>

---------------------------------------------------------------------------
\* The caller drops its own Gl handle; the wrappers keep theirs.
DropGl ==
    /\ gl.caller
    /\ gl' = [strong |-> gl.strong - 1, caller |-> FALSE]
    /\ last' = [op |-> "drop Gl", calls |-> <<>>]
    /\ UNCHANGED <<dev, shaders, programs, buffers, vaos, meshes, app>>

---------------------------------------------------------------------------
(* The conversion of a raw log buffer to text.                             *)

\* The bytes of a raw buffer: the terminator, the fill and a log character.
RawBytes == {NUL, SPACE} \cup LogChars

\* The buffers the conversion is given: check_compile_error and
\* check_link_error call it only with a buffer of positive length.
RawBuffers == SeqsUpTo(RawBytes, MaxLogChars + 2) \ {<<>>}

InitLog ==
    /\ dev = DevInit
    /\ gl = GlInit
    /\ app = AppInit
    /\ shaders = {}
    /\ programs = <<>>
    /\ buffers = <<>>
    /\ vaos = {}
    /\ meshes = <<>>
    /\ last \in {[op |-> "raw buffer", calls |-> <<>>, str |-> str] :
                    str \in RawBuffers}

ConvertLog ==
    /\ last.op = "raw buffer"
    /\ last' = [op |-> "create_str_from_raw_cstr", calls |-> <<>>,
                str |-> last.str, text |-> create_str_from_raw_cstr(last.str)]
    /\ UNCHANGED <<dev, shaders, programs, buffers, vaos, meshes, gl, app>>

---------------------------------------------------------------------------
(* The application.                                                        *)

\* A log and the length the device reports for it.
Reports(logs) ==
    UNION {{[log |-> log, len |-> n] : n \in ReportedLength(log)} :
                log \in logs}

\* let mut app = App::new(); ... ClearColor.  A panic in App::new drops
\* its locals in reverse order: gl, events, window, glfw.
AppNew(logs, ifaces) ==
    /\ app.pc = "main"
    /\ gl.caller
    /\ \E vert \in Reports(logs), frag \in Reports(logs),
          link \in Reports(logs), iface \in ifaces :
       \E sp \in {App_create_shader_program(dev, vert, frag, link, iface)} :
       \E m \in {App_init_test_mesh(Run(dev, sp.calls))} :
       \E r \in {App_new(sp, m)} :
       \E calls \in {IF r.ok THEN r.calls
                      ELSE r.calls \o <<[op |-> "glfwDestroyWindow"]>>} :
            /\ dev' = Run(dev, calls)
            /\ programs' = IF r.ok THEN (r.shader :> r.uniforms) ELSE programs
            /\ meshes' = IF r.ok THEN (r.mesh.vao :> r.mesh) ELSE meshes
            /\ gl' = IF r.ok THEN Held(gl, calls, 1)
                     ELSE [strong |-> Held(gl, calls, 0).strong - 1,
                           caller |-> FALSE]
            /\ app' = IF r.ok
                      THEN [app EXCEPT !.pc = "loop", !.shader = r.shader,
                                       !.mesh = r.mesh.vao]
                      ELSE [app EXCEPT !.pc = "aborted"]
            /\ last' = [op |-> "App::new", calls |-> calls, ok |-> r.ok,
                        vert |-> vert, frag |-> frag, link |-> link,
                        iface |-> iface]
    /\ UNCHANGED <<shaders, buffers, vaos>>

\* One pass of the while loop up to loop_tick: the window is not told to
\* close, so handle_window_events runs.  poll_events sets the close flag
\* when the user closes the window; then every event is handled.
HandleWindowEvents(batches) ==
    /\ app.pc = "loop"
    /\ ~app.should_close
    /\ \E e \in batches, close_clicked \in BOOLEAN :
        LET r == App_handle_window_events(e)
            calls == <<[op |-> "glfwPollEvents"]>> \o r.calls
        IN  /\ dev' = Run(dev, calls)
            /\ app' = [app EXCEPT !.pc = "tick",
                                  !.should_close = close_clicked \/ r.close]
            /\ last' = [op |-> "App::handle_window_events", calls |-> calls,
                        events |-> e, close_clicked |-> close_clicked]
    /\ UNCHANGED <<shaders, programs, buffers, vaos, meshes, gl>>

\* self.loop_tick(), then back to the test of the while loop; a panic of
\* update_frame_counter unwinds out of start_game and main.
LoopTick(clocks) ==
    /\ app.pc = "tick"
    /\ \E clock \in clocks :
        LET m == meshes[app.mesh]
            c == App_update_frame_counter(app, clock)
            calls == App_loop_tick(app, programs[app.shader], m)
                        \o IF c.fps >= 0
                           THEN <<[op |-> "glfwSetWindowTitle"]>> ELSE <<>>
        IN  /\ c.frames <= MaxFrames
            /\ dev' = Run(dev, calls)
            /\ meshes' = [meshes EXCEPT
                            ![app.mesh].renders = Min(@ + 1, MaxDraws)]
            /\ app' = [app EXCEPT
                        !.pc = IF c.panicked THEN "panicked" ELSE "loop",
                        !.red = App_red(app).red, !.dir = App_red(app).dir,
                        !.frames = c.frames]
            /\ last' = [op |-> "App::loop_tick", calls |-> calls,
                        clock |-> clock, fps |-> c.fps,
                        panicked |-> c.panicked]
    /\ UNCHANGED <<shaders, programs, buffers, vaos, gl>>

\* The window has been told to close: the while loop ends and start_game
\* returns.
StartGameReturns ==
    /\ app.pc = "loop"
    /\ app.should_close
    /\ app' = [app EXCEPT !.pc = "returned"]
    /\ last' = [op |-> "App::start_game", calls |-> <<>>]
    /\ UNCHANGED <<dev, shaders, programs, buffers, vaos, meshes, gl>>

\* main() returns, or unwinds: app is dropped.
AppDrop ==
    /\ app.pc \in {"returned", "panicked"}
    /\ LET calls == App_drop(app, meshes[app.mesh])
       IN  /\ dev' = Run(dev, calls)
           /\ gl' = [strong |-> Held(gl, calls, -1).strong - 1,
                     caller |-> FALSE]
           /\ last' = [op |-> "drop App", calls |-> calls,
                       exit |-> app.pc]
    /\ programs' = <<>>
    /\ meshes' = <<>>
    /\ app' = [app EXCEPT !.pc = "dropped"]
    /\ UNCHANGED <<shaders, buffers, vaos>>

---------------------------------------------------------------------------
(* Spec: every operation of the crate, interleaved, on few inputs.         *)

Next ==
    \/ NewShader({<<>>}, MaxNames)
    \/ DropShader
    \/ NewProgram({<<NameRed>>, <<NameRed, NameInteriorNul>>}, {<<>>},
                  {(NameRed :> 0)}, MaxNames)
    \/ BindProgram
    \/ UnbindProgram
    \/ SetUniform({NameRed}, {"f32"})
    \/ DropProgram
    \/ NewBuffer({"GLushort"}, MaxNames)
    \/ BindBuffer
    \/ UnbindBuffer
    \/ BufferData(Targets, {"STATIC_DRAW"}, VertexLens, BOOLEAN)
    \/ DropBuffer
    \/ NewVertexArray(MaxNames)
    \/ BindVertexArray
    \/ UnbindVertexArray
    \/ DropVertexArray
    \/ CreateMesh({"Vertex"}, {"GLushort"}, {USize(6)}, MaxNames)
    \/ RenderMesh
    \/ DropMesh

Spec == Init /\ [][Next]_vars

(* SpecShader: the shader and program operations on every input.           *)

NextShader ==
    \/ NewShader(Logs, MaxNames)
    \/ DropShader
    \/ NewProgram(UniformRequests, Logs, Interfaces, MaxNames)
    \/ BindProgram
    \/ UnbindProgram
    \/ DropProgram

SpecShader == Init /\ [][NextShader]_vars

(* SpecDerive: the derivation, a function of the item it is given, applied *)
(* to every item.                                                          *)

NextDerive == Derive

SpecDerive == InitDerive /\ [][NextDerive]_vars

(* SpecUniform: programs that link, their binding and their uniforms, over *)
(* every uniform name and value type.                                      *)

NextUniform ==
    \/ NewProgram(UniformRequests, {<<>>}, Interfaces, MaxPrograms)
    \/ BindProgram
    \/ UnbindProgram
    \/ SetUniform(UniformNames, UniformTypes)
    \/ DropProgram

SpecUniform == Init /\ [][NextUniform]_vars

(* SpecMesh: Mesh over every vertex and index type, beside stand-alone     *)
(* buffers that upload with bind_first = true.                             *)

NextMesh ==
    \/ NewBuffer({"GLushort"}, MaxMeshNames)
    \/ BufferData(Targets, {"STATIC_DRAW"}, VertexLens, {TRUE})
    \/ DropBuffer
    \/ CreateMesh(VertexTypes, IndexTypes, IndexLens, MaxMeshNames)
    \/ RenderMesh
    \/ DropMesh

SpecMesh == Init /\ [][NextMesh]_vars

(* SpecHandle: wrappers of every kind constructed and destroyed, and the   *)
(* caller's own Gl handle dropped at any moment.                           *)

NextHandle ==
    \/ NewShader({<<>>}, MaxMeshNames)
    \/ DropShader
    \/ NewProgram({<<NameRed>>}, {<<>>}, {(NameRed :> 0)}, MaxMeshNames)
    \/ DropProgram
    \/ NewBuffer({"GLushort"}, MaxMeshNames)
    \/ DropBuffer
    \/ NewVertexArray(MaxMeshNames)
    \/ DropVertexArray
    \/ CreateMesh({"Vertex"}, {"GLushort"}, {USize(6)}, MaxMeshNames)
    \/ DropMesh
    \/ DropGl

SpecHandle == Init /\ [][NextHandle]_vars

(* SpecApp: main(): App::new, the game loop over every batch of window     *)
(* events and every reading of the clock, and the drop of App.             *)

NextApp ==
    \/ AppNew(Logs, Interfaces)
    \/ HandleWindowEvents(SeqsUpTo(WindowEvents, MaxEvents))
    \/ LoopTick(Clocks)
    \/ StartGameReturns
    \/ AppDrop

SpecApp == Init /\ [][NextApp]_vars

(* SpecLog: the retrieval of compile and link logs, and the conversion of  *)
(* a raw buffer to text, a function of the buffer, applied to every        *)
(* non-empty buffer.                                                       *)

NextLog ==
    \/ ConvertLog
    \/ NewShader(Logs, MaxNames)
    \/ DropShader
    \/ NewProgram({<<NameRed>>}, Logs, {(NameRed :> 0)}, MaxNames)
    \/ DropProgram

SpecLog == InitLog /\ [][NextLog]_vars

(* SpecBuffer: stand-alone vertex buffers bound, unbound and filled through *)
(* both targets with both usages, with and without bind_first.             *)

NextBuffer ==
    \/ NewBuffer({"Vertex"}, MaxBuffers)
    \/ BindBuffer
    \/ UnbindBuffer
    \/ BufferData(Targets, Usages, VertexLens, BOOLEAN)
    \/ DropBuffer

SpecBuffer == Init /\ [][NextBuffer]_vars

---------------------------------------------------------------------------
(* What the claims are stated with.                                        *)

\* The positions of the calls to entry point `op` in a call sequence.
At(calls, op) == {i \in DOMAIN calls : calls[i].op = op}

OpNames(calls) == [i \in DOMAIN calls |-> calls[i].op]

Repeat(x, n) == [i \in 1..n |-> x]

\* The handles owned by a live wrapper.
Live ==
    {<<"shader", id>> : id \in shaders}
        \cup {<<"program", id>> : id \in DOMAIN programs}
        \cup {<<"buffer", id>> : id \in DOMAIN buffers}
        \cup {<<"vao", id>> : id \in vaos}
        \cup UNION {{<<"vao", meshes[m].vao>>, <<"buffer", meshes[m].vbo>>,
                     <<"buffer", meshes[m].ebo>>} : m \in DOMAIN meshes}

\* The handles the device has handed out.
Created(h) ==
    CASE h[1] \in {"shader", "program"} -> dev.kind[h[2]] = h[1]
      [] h[1] = "buffer" -> h[2] < dev.nextBuf
      [] h[1] = "vao" -> h[2] < dev.nextVao

---------------------------------------------------------------------------
\* C1: whatever the sequence of constructions, uses and destructions, the
\* device has received no release call for the handle of a wrapper that is
\* alive and exactly one for the handle of every wrapper that is gone, and
\* no call has named a handle after its release.
C1_ReleasedExactlyOnce ==
    /\ \A h \in Handles :
        dev.del[h] = IF Created(h) /\ h \notin Live THEN 1 ELSE 0
    /\ dev.stale = {}

\* A shader, the program linked from it and a buffer have all been used
\* and destroyed.
C1_Witness ==
    /\ last.op = "drop ShaderProgram"
    /\ \E s, b \in Names :
        /\ dev.del[<<"shader", s>>] = 1
        /\ dev.del[<<"program", last.id>>] = 1
        /\ dev.del[<<"buffer", b>>] = 1

---------------------------------------------------------------------------
\* C2: every Mesh::render issues exactly: bind vertex array, bind the index
\* buffer to the element-array target, enable every location of the layout,
\* one indexed draw, disable every location, unbind the element-array
\* target, unbind the vertex array; the unbind of the vertex array is always
\* its last call.
C2_RenderBracket ==
    last.op = "Mesh::render" =>
        LET m == last.mesh
            calls == last.calls
            n == Len(Fields(m.vt))
            locations == {Fields(m.vt)[i].location : i \in 1..n}
        IN  /\ OpNames(calls) =
                    <<"BindVertexArray", "BindBuffer">>
                        \o Repeat("EnableVertexAttribArray", n)
                        \o <<"DrawElements">>
                        \o Repeat("DisableVertexAttribArray", n)
                        \o <<"BindBuffer", "BindVertexArray">>
            /\ calls[1].id = m.vao
            /\ calls[2].target = "ELEMENT_ARRAY_BUFFER" /\ calls[2].id = m.ebo
            /\ {calls[2 + i].location : i \in 1..n} = locations
            /\ {calls[3 + n + i].location : i \in 1..n} = locations
            /\ calls[4 + 2 * n].target = "ELEMENT_ARRAY_BUFFER"
            /\ calls[4 + 2 * n].id = 0
            /\ calls[5 + 2 * n].id = 0

\* A mesh of the two-field vertex type has been rendered a second time.
C2_Witness ==
    /\ last.op = "Mesh::render"
    /\ last.mesh.vt = "Vertex"
    /\ last.mesh.renders = 2

---------------------------------------------------------------------------
\* C3: the index scalar type of the indexed draw issued by render is the
\* one the mesh's IndexType declares with Index::get_type().
C3_DrawUsesDeclaredIndexType ==
    last.op = "Mesh::render" =>
        \A i \in At(last.calls, "DrawElements") :
            last.calls[i].type = Index_get_type(last.mesh.it)

---------------------------------------------------------------------------
\* Positions of calls in a call sequence, and their order.

BufferBinds(calls, target, id) ==
    {i \in At(calls, "BindBuffer") :
        calls[i].target = target /\ calls[i].id = id}

VertexArrayBinds(calls, id) ==
    {i \in At(calls, "BindVertexArray") : calls[i].id = id}

Uploads(calls, target) ==
    {i \in At(calls, "BufferData") : calls[i].target = target}

\* Both kinds of call occur, and every call of A precedes every call of B.
Before(A, B) == A # {} /\ B # {} /\ \A a \in A, b \in B : a < b

\* C4: in Mesh::create (1) the vertex array is bound before the vertex
\* buffer is bound, uploaded and its attribute pointers are set up, (2) the
\* attribute pointers are set up while the vertex buffer is bound to the
\* array-buffer target, so that the vertex array records the vertex buffer
\* for every location, (3) the bind, upload and unbind of the index buffer
\* happen while the vertex array is bound, (4) the vertex array is unbound
\* last.
C4_CreateOrder ==
    last.op = "Mesh::create" =>
        LET m == last.mesh
            calls == last.calls
            pointers == At(calls, "VertexAttribPointer")
        IN  /\ Before(VertexArrayBinds(calls, m.vao),
                      BufferBinds(calls, "ARRAY_BUFFER", m.vbo))
            /\ Before(BufferBinds(calls, "ARRAY_BUFFER", m.vbo),
                      Uploads(calls, "ARRAY_BUFFER"))
            /\ Before(Uploads(calls, "ARRAY_BUFFER"), pointers)
            /\ Before(pointers, BufferBinds(calls, "ARRAY_BUFFER", 0))
            /\ \A i \in 1..Len(Fields(m.vt)) :
                dev.attrib[m.vao][Fields(m.vt)[i].location].buf = m.vbo
            /\ dev.store[m.vbo].usage = "STATIC_DRAW"
            /\ Before(VertexArrayBinds(calls, m.vao),
                      BufferBinds(calls, "ELEMENT_ARRAY_BUFFER", m.ebo))
            /\ Before(BufferBinds(calls, "ELEMENT_ARRAY_BUFFER", m.ebo),
                      Uploads(calls, "ELEMENT_ARRAY_BUFFER"))
            /\ Before(Uploads(calls, "ELEMENT_ARRAY_BUFFER"),
                      BufferBinds(calls, "ELEMENT_ARRAY_BUFFER", 0))
            /\ Before(BufferBinds(calls, "ELEMENT_ARRAY_BUFFER", 0),
                      VertexArrayBinds(calls, 0))
            /\ dev.store[m.ebo].usage = "STATIC_DRAW"
            /\ VertexArrayBinds(calls, 0) = {Len(calls)}

\* A mesh of the two-field vertex type has been created after a stand-alone
\* buffer took the first buffer name.
C4_Witness ==
    /\ last.op = "Mesh::create"
    /\ last.mesh.vt = "Vertex"
    /\ last.mesh.vbo = 2

---------------------------------------------------------------------------
\* The buffer targets a call sequence binds a buffer to.
BoundTargets(calls) ==
    {calls[i].target : i \in {j \in At(calls, "BindBuffer") : calls[j].id # 0}}

\* C5: when Mesh::create, Mesh::render or Buffer::buffer with
\* bind_first = true returns, after any sequence of such calls, no vertex
\* array is current and no buffer is bound to a target the call bound.
C5_NothingLeftBound ==
    (\/ last.op \in {"Mesh::create", "Mesh::render"}
     \/ (last.op = "Buffer::buffer" /\ last.bind)) =>
        /\ dev.vao = 0
        /\ BoundTargets(last.calls) # {}
        /\ \A target \in BoundTargets(last.calls) : Bound(dev, target) = 0

\* A stand-alone buffer uploads, binding first, after a mesh was rendered.
C5_Witness ==
    /\ last.op = "Buffer::buffer"
    /\ last.bind
    /\ \E m \in DOMAIN meshes : meshes[m].renders > 0

---------------------------------------------------------------------------
\* C6: a mesh created from n indices keeps the index count n, and every
\* render call issues exactly one indexed draw, which requests n indices.
C6_DrawRequestsIndexCount ==
    /\ last.op = "Mesh::create" => last.mesh.indices = last.index_len
    /\ last.op = "Mesh::render" =>
        /\ Cardinality(At(last.calls, "DrawElements")) = 1
        /\ \A i \in At(last.calls, "DrawElements") :
            /\ last.calls[i].count >= 0
            /\ USize(last.calls[i].count) = last.mesh.indices

---------------------------------------------------------------------------
\* C7: a mesh destroyed before any render call on it: its destruction
\* issues exactly one release of its vertex array, one of its vertex buffer
\* and one of its index buffer, these are the only releases of the three
\* handles, and no indexed draw was issued with its vertex array.
C7_DropUnrenderedMesh ==
    (last.op = "drop Mesh" /\ last.mesh.renders = 0) =>
        LET m == last.mesh
            calls == last.calls
        IN  /\ Len(calls) = 3
            /\ Cardinality({i \in At(calls, "DeleteVertexArrays") :
                                calls[i].id = m.vao}) = 1
            /\ Cardinality({i \in At(calls, "DeleteBuffers") :
                                calls[i].id = m.vbo}) = 1
            /\ Cardinality({i \in At(calls, "DeleteBuffers") :
                                calls[i].id = m.ebo}) = 1
            /\ dev.del[<<"vao", m.vao>>] = 1
            /\ dev.del[<<"buffer", m.vbo>>] = 1
            /\ dev.del[<<"buffer", m.ebo>>] = 1
            /\ dev.draws[m.vao] = 0

\* A mesh is destroyed unrendered while a stand-alone buffer is alive.
C7_Witness ==
    /\ last.op = "drop Mesh"
    /\ last.mesh.renders = 0
    /\ DOMAIN buffers # {}

---------------------------------------------------------------------------
\* C8: Shader::new_from_source returns Err exactly when the device reports
\* a compile-log length greater than 0, and then the error carries the
\* device's log text; on Err no Shader reaches the caller, the allocated
\* shader object is released exactly once, by the call itself, and it is
\* never named by a later device call (so never attached to a program); on
\* Ok the Shader reaches the caller unreleased.
C8_CompileErrorOnLog ==
    /\ last.op = "Shader::new_from_source" =>
        LET h == <<"shader", last.id>>
            releases == {i \in At(last.calls, "DeleteShader") :
                            last.calls[i].id = last.id}
        IN  /\ last.ok <=> ~(last.info_log_length > 0)
            /\ ~last.ok =>
                /\ last.err = last.log
                /\ last.id \notin shaders
                /\ Cardinality(releases) = 1
                /\ dev.del[h] = 1
            /\ last.ok =>
                /\ last.id \in shaders
                /\ releases = {}
                /\ dev.del[h] = 0
    /\ \A id \in Names : <<"shader", id>> \notin dev.stale

\* A compile left a one-character log; the call returned Err with it.
C8_Witness ==
    /\ last.op = "Shader::new_from_source"
    /\ ~last.ok
    /\ Len(last.err) = 1
    /\ last.info_log_length = 2

\* C9: whenever the source fails compilation new_from_source returns Err,
\* and the text of every Err it returns is non-empty.
C9_FailedCompileReported ==
    last.op = "Shader::new_from_source" =>
        /\ ~last.compiles => ~last.ok
        /\ ~last.ok => last.err # <<>>

---------------------------------------------------------------------------
IsAttach(c) == c.op = "AttachShader"
IsDetach(c) == c.op = "DetachShader"
IsLookup(c) == c.op = "GetUniformLocation"

\* The names with an interior NUL byte among the requested ones.
WithInteriorNul(names) ==
    {i \in 1..Len(names) : \E j \in 1..Len(names[i]) : names[i][j] = NUL}

\* The requested names up to the first with an interior NUL byte.
UpToInteriorNul(names) ==
    IF WithInteriorNul(names) = {}
    THEN names
    ELSE SubSeq(names, 1,
                (CHOOSE i \in WithInteriorNul(names) :
                    \A j \in WithInteriorNul(names) : i <= j) - 1)

\* The order of calls of new_from_shaders, with `looked_up` the uniform
\* names it is to look up when the link log is empty.
ProgramCallOrder(looked_up) ==
    LET calls == last.calls
        k == Len(last.shaders)
        attaches == SelectSeq(calls, IsAttach)
        detaches == SelectSeq(calls, IsDetach)
        lookups == SelectSeq(calls, IsLookup)
    IN  /\ OpNames(SubSeq(calls, 1, k + 3)) =
                <<"CreateProgram">> \o Repeat("AttachShader", k)
                    \o <<"LinkProgram", "GetProgramiv">>
        /\ calls[1].id = last.id
        /\ [i \in 1..Len(attaches) |-> attaches[i].shader] = last.shaders
        /\ \A i \in 1..Len(attaches) : attaches[i].program = last.id
        /\ At(calls, "LinkProgram") = {k + 2}
        /\ At(calls, "GetProgramiv") = {k + 3}
        /\ IF last.info_log_length > 0
           THEN detaches = <<>> /\ lookups = <<>>
           ELSE /\ [i \in 1..Len(detaches) |-> detaches[i].shader]
                        = last.shaders
                /\ \A i \in 1..Len(detaches) : detaches[i].program = last.id
                /\ [i \in 1..Len(lookups) |-> lookups[i].name] = looked_up
                /\ \A i \in 1..Len(lookups) : lookups[i].id = last.id
        /\ \A u \in At(calls, "GetUniformLocation") :
            /\ u > k + 3
            /\ \A d \in At(calls, "DetachShader") : d < u

\* C10 as stated: create program, attach every shader, link once, query the
\* link log; only when the log is empty detach every shader, then look up
\* each requested uniform name, in the order given, exactly once.
C10_EveryUniformLookedUp ==
    last.op = "ShaderProgram::new_from_shaders" =>
        ProgramCallOrder(last.uniforms)

\* C10: create program, attach every shader, link once, query the link log;
\* only when the log is empty detach every shader, then look up, in the
\* order given and once each, the requested uniform names up to the first
\* that holds an interior NUL byte (all of them when none does).  No lookup
\* precedes the link or the detaching of all shaders.
C10_CallOrder ==
    last.op = "ShaderProgram::new_from_shaders" =>
        ProgramCallOrder(UpToInteriorNul(last.uniforms))

\* A program of two shaders and two uniforms has been linked.
C10_Witness ==
    /\ last.op = "ShaderProgram::new_from_shaders"
    /\ last.ok
    /\ Len(last.shaders) = 2
    /\ last.uniforms = <<NameProjection, NameRed>>

---------------------------------------------------------------------------
\* The positions in `calls` of the calls `op` that name shader s.
ShaderCalls(calls, op, s) ==
    {i \in At(calls, op) :
        IF op = "DeleteShader" THEN calls[i].id = s ELSE calls[i].shader = s}

---------------------------------------------------------------------------
\* C12: when the link log is non-empty new_from_shaders returns Err with
\* the log text, no ShaderProgram reaches the caller, no uniform is looked
\* up, and when it returns the allocated program and every supplied shader
\* have each been released exactly once.
C12_LinkErrorAborts ==
    (last.op = "ShaderProgram::new_from_shaders" /\ last.log # <<>>) =>
        /\ ~last.ok
        /\ ~last.panicked
        /\ last.err = last.log
        /\ last.id \notin DOMAIN programs
        /\ At(last.calls, "GetUniformLocation") = {}
        /\ Cardinality({i \in At(last.calls, "DeleteProgram") :
                            last.calls[i].id = last.id}) = 1
        /\ dev.del[<<"program", last.id>>] = 1
        /\ \A i \in 1..Len(last.shaders) :
            /\ Cardinality(ShaderCalls(last.calls, "DeleteShader",
                                       last.shaders[i])) = 1
            /\ dev.del[<<"shader", last.shaders[i]>>] = 1
            /\ last.shaders[i] \notin shaders

\* Linking one shader, with uniforms requested, left a one-character log.
C12_Witness ==
    /\ last.op = "ShaderProgram::new_from_shaders"
    /\ last.err = <<69>>
    /\ Len(last.shaders) = 1
    /\ last.uniforms # <<>>

---------------------------------------------------------------------------
\* The lookups of a call sequence, in order.
Lookups(calls) == SelectSeq(calls, IsLookup)

\* C13: after a successful new_from_shaders the uniform table holds exactly
\* the requested names whose lookup returned a non-negative location, each
\* mapped to the location the device returned; a name whose lookup returned
\* a negative location is absent, and a miss does not make construction
\* fail.
C13_UniformTable ==
    last.op = "ShaderProgram::new_from_shaders" =>
        LET lookups == Lookups(last.calls)
        IN  /\ last.ok =>
                /\ last.id \in DOMAIN programs
                /\ DOMAIN programs[last.id] =
                        {lookups[i].name :
                            i \in {j \in 1..Len(lookups) :
                                        lookups[j].value >= 0}}
                /\ \A i \in 1..Len(lookups) :
                    /\ lookups[i].value =
                            UniformLocation(last.iface, lookups[i].name)
                    /\ lookups[i].value >= 0 =>
                        programs[last.id][lookups[i].name] = lookups[i].value
                    /\ lookups[i].value < 0 =>
                        lookups[i].name \notin DOMAIN programs[last.id]
                /\ {lookups[i].name : i \in 1..Len(lookups)}
                        = Range(last.uniforms)
            /\ (\E i \in 1..Len(lookups) : lookups[i].value < 0)
                    => (last.ok \/ last.panicked)

\* A program was linked; one of its two requested uniforms was not found.
C13_Witness ==
    /\ last.op = "ShaderProgram::new_from_shaders"
    /\ last.ok
    /\ last.uniforms = <<NameProjection, NameRed>>
    /\ DOMAIN programs[last.id] = {NameRed}

---------------------------------------------------------------------------
\* C14: set_uniform on a name absent from the program's uniform table
\* (never requested, or requested and not found) issues no device call and
\* leaves the device as it was.
C14_MissingUniformIgnored ==
    [][(/\ last'.op = "ShaderProgram::set_uniform"
        /\ last'.name \notin DOMAIN last'.uniforms)
            => (last'.calls = <<>> /\ dev' = dev)]_vars

\* set_uniform of a name that is not in a non-empty table, on the program
\* that is current.
C14_Witness ==
    /\ last.op = "ShaderProgram::set_uniform"
    /\ last.name = NameProjection
    /\ DOMAIN last.uniforms = {NameRed}
    /\ dev.program = last.id

---------------------------------------------------------------------------
\* The value-setting entry point of each value type.
SetterOf(ty) ==
    CASE ty = "f32" -> "Uniform1f"
      [] ty = "Vec2" -> "Uniform2f"
      [] ty = "Vec3" -> "Uniform3f"
      [] ty = "Vec4" -> "Uniform4f"
      [] ty = "Mat4" -> "UniformMatrix4fv"

\* C15: set_uniform on a name present in the table issues exactly one
\* device call, the value-setting call of the value's type (float: 1
\* component, Vec2/Vec3/Vec4: 2/3/4 components, matrix: 4x4 matrix), at the
\* location cached for the name.
C15_SetsCachedLocation ==
    (/\ last.op = "ShaderProgram::set_uniform"
     /\ last.name \in DOMAIN last.uniforms) =>
        /\ Len(last.calls) = 1
        /\ last.calls[1].op = SetterOf(last.type)
        /\ last.calls[1].location = last.uniforms[last.name]

\* A matrix is set at location 1.
C15_Witness ==
    /\ last.op = "ShaderProgram::set_uniform"
    /\ last.type = "Mat4"
    /\ last.name \in DOMAIN last.uniforms
    /\ last.uniforms[last.name] = 1

---------------------------------------------------------------------------
\* C16: the uniform table of a program is fixed once construction has
\* returned: no step changes the table of a program that stays alive, and
\* bind, unbind and set_uniform change no table and issue no
\* uniform-location query.
C16_TableFixed ==
    [][/\ \A id \in DOMAIN programs \cap DOMAIN programs' :
            programs'[id] = programs[id]
       /\ last'.op \in {"ShaderProgram::bind", "ShaderProgram::unbind",
                        "ShaderProgram::set_uniform"} =>
            /\ programs' = programs
            /\ At(last'.calls, "GetUniformLocation") = {}]_vars

\* set_uniform of a missing name on a program whose table is not empty,
\* after another program was made.
C16_Witness ==
    /\ last.op = "ShaderProgram::set_uniform"
    /\ last.name = NameInteriorNul
    /\ programs[last.id] # <<>>
    /\ Cardinality(DOMAIN programs) = 2

---------------------------------------------------------------------------
\* C20: bind makes the program the device's current program; unbind makes
\* the current program none (0), whatever program was current before.
C20_BindUnbind ==
    /\ last.op = "ShaderProgram::bind" =>
        /\ last.calls = <<[op |-> "UseProgram", id |-> last.id]>>
        /\ dev.program = last.id
    /\ last.op = "ShaderProgram::unbind" =>
        /\ last.calls = <<[op |-> "UseProgram", id |-> 0]>>
        /\ dev.program = 0

\* unbind on one program while another program was current.
C20_Witness ==
    /\ last.op = "ShaderProgram::unbind"
    /\ last.before \notin {0, last.id}

---------------------------------------------------------------------------
\* The named fields of the item the derivation was applied to.
DerivedFields == last.ast.named

\* C17: for a record of N named fields, each with an explicit location, the
\* derived setup_attrib_pointer emits exactly N attribute bindings in
\* declaration order; the first offset is 0, each next offset is the
\* previous offset plus the size of the previous field, offsets are
\* strictly increasing, the last offset plus the size of the last field is
\* at most the stride, and every binding uses the same stride, the total
\* size of the record.
C17_DerivedLayout ==
    (last.op = "derive(VertexAttribPointers)" /\ last.ok) =>
        LET n == Len(DerivedFields)
            bindings == last.setup_attrib_pointer
            size == [i \in 1..n |-> SizeOf(DerivedFields[i].ty)]
        IN  /\ Len(bindings) = n
            /\ \A i \in 1..n :
                /\ bindings[i].op = "VertexAttribPointer"
                /\ bindings[i].location = DerivedFields[i].attr.value
                /\ bindings[i].size = ComponentCount(DerivedFields[i].ty)
                /\ bindings[i].stride = SeqSum(size)
            /\ n > 0 => bindings[1].offset = 0
            /\ \A i \in 1..(n - 1) :
                /\ bindings[i + 1].offset = bindings[i].offset + size[i]
                /\ bindings[i + 1].offset > bindings[i].offset
            /\ n > 0 => bindings[n].offset + size[n] <= SeqSum(size)

\* The derivation accepted a record of two fields of different types.
C17_Witness ==
    /\ last.op = "derive(VertexAttribPointers)"
    /\ last.ok
    /\ Len(DerivedFields) = 2
    /\ DerivedFields[1].ty = "Vec3"
    /\ DerivedFields[2].ty = "Vec2"

\* C18: every layout the derivation accepts has pairwise-distinct attribute
\* locations.
C18_DistinctLocations ==
    (last.op = "derive(VertexAttribPointers)" /\ last.ok) =>
        \A i, j \in 1..Len(last.setup_attrib_pointer) :
            i # j => last.setup_attrib_pointer[i].location
                        # last.setup_attrib_pointer[j].location

\* The items C19 says are refused.
Refused(ast) ==
    \/ ast.data \in {"Enum", "Union"}
    \/ ast.data = "Struct" /\ ast.fields \in {"Unit", "Unnamed"}
    \/ /\ ast.data = "Struct"
       /\ ast.fields = "Named"
       /\ \E i \in 1..Len(ast.named) :
            \/ ast.named[i].attr.meta = "missing"
            \/ ast.named[i].attr.meta # "NameValue"
            \/ ast.named[i].attr.lit # "Int"

\* C19: the derivation fails for every enum, union, unit struct and tuple
\* struct, and for every named-field struct with a field that has no
\* location annotation or one whose value is not an unsigned integer
\* literal; it succeeds only for named-field structs whose every field has
\* an integer location.
C19_DerivationRefuses ==
    last.op = "derive(VertexAttribPointers)" =>
        /\ Refused(last.ast) => ~last.ok
        /\ last.ok =>
            /\ last.ast.data = "Struct"
            /\ last.ast.fields = "Named"
            /\ \A i \in 1..Len(last.ast.named) :
                /\ last.ast.named[i].attr.meta = "NameValue"
                /\ last.ast.named[i].attr.lit = "Int"

\* A named-field struct was refused for its second field, which has no
\* location annotation.
C19_Witness ==
    /\ last.op = "derive(VertexAttribPointers)"
    /\ ~last.ok
    /\ last.ast.data = "Struct"
    /\ last.ast.fields = "Named"
    /\ Len(last.ast.named) = 2
    /\ last.ast.named[1].attr.meta = "NameValue"
    /\ last.ast.named[2].attr.meta = "missing"

---------------------------------------------------------------------------
\* The context as it is just before call i of a call sequence issued on
\* context d.
ContextAt(d, calls, i) == Run(d, SubSeq(calls, 1, i - 1))

\* The attribute locations of the layout of a vertex type.
LayoutLocations(vt) == {Fields(vt)[i].location : i \in 1..Len(Fields(vt))}

\* C23: at the moment render issues its indexed draw, the current vertex
\* array is the mesh's, the element-array target is bound to the mesh's
\* index buffer and every location of the layout is enabled; when render
\* returns, every location of the layout is disabled again.
C23_DrawState ==
    [][last'.op = "Mesh::render" =>
        LET m == last'.mesh
            calls == last'.calls
        IN  /\ At(calls, "DrawElements") # {}
            /\ \A i \in At(calls, "DrawElements") :
                LET d == ContextAt(dev, calls, i)
                IN  /\ d.vao = m.vao
                    /\ Bound(d, "ELEMENT_ARRAY_BUFFER") = m.ebo
                    /\ LayoutLocations(m.vt) \subseteq d.enabled[m.vao]
            /\ dev'.enabled[m.vao] \cap LayoutLocations(m.vt) = {}]_vars

\* A mesh of the one-field vertex type has been drawn with 32-bit indices.
C23_Witness ==
    /\ last.op = "Mesh::render"
    /\ last.mesh.vt = "Point"
    /\ last.mesh.it = "GLuint"
    /\ dev.draws[last.mesh.vao] = 1

---------------------------------------------------------------------------
\* C24: when Mesh::create returns, the element-array binding recorded in the
\* mesh's vertex array is the mesh's index buffer.
C24_VertexArrayRecordsIndexBuffer ==
    last.op = "Mesh::create" => dev.elem[last.mesh.vao] = last.mesh.ebo

---------------------------------------------------------------------------
\* C30: for every length n of the index array, the count the indexed draw
\* requests is n and the byte size of the index upload is
\* n * size_of(IndexType): neither `as i32` nor the conversion to the signed
\* size type changes the value.
C30_ConversionsKeepValue ==
    /\ last.op = "Mesh::render" =>
        \A i \in At(last.calls, "DrawElements") :
            /\ last.calls[i].count >= 0
            /\ USize(last.calls[i].count) = last.mesh.indices
    /\ last.op = "Mesh::create" =>
        \A i \in At(last.calls, "BufferData") :
            last.calls[i].target = "ELEMENT_ARRAY_BUFFER" =>
                /\ ~last.calls[i].size.neg
                /\ last.calls[i].size.mag =
                        USizeMul(last.index_len, SizeOf(last.mesh.it))

---------------------------------------------------------------------------
\* C21: Buffer::buffer issues exactly one upload, of
\* data.len() * size_of(T) bytes, to the target it is given, with the usage
\* it is given; with bind_first = true the upload is preceded by a bind of
\* this buffer to that target and followed by an unbind of that target; with
\* bind_first = false it issues no bind or unbind and the target's binding
\* is what it was.
C21_OneUpload ==
    [][last'.op = "Buffer::buffer" =>
        LET calls == last'.calls
            bytes == USize(last'.len.lo * SizeOf(buffers[last'.id]))
            upload == [op |-> "BufferData", target |-> last'.location,
                       size |-> [neg |-> FALSE, mag |-> bytes],
                       usage |-> last'.usage]
        IN  /\ last'.len = USize(last'.len.lo)
            /\ Cardinality(At(calls, "BufferData")) = 1
            /\ \A i \in At(calls, "BufferData") : calls[i] = upload
            /\ last'.bind =>
                /\ OpNames(calls) = <<"BindBuffer", "BufferData", "BindBuffer">>
                /\ calls[1].id = last'.id
                /\ calls[1].target = last'.location
                /\ calls[3].id = 0
                /\ calls[3].target = last'.location
            /\ ~last'.bind =>
                /\ Len(calls) = 1
                /\ Bound(dev', last'.location) = Bound(dev, last'.location)]_vars

\* An upload without bind_first, with the dynamic usage, to a buffer the
\* caller had bound to the element-array target.
C21_Witness ==
    /\ last.op = "Buffer::buffer"
    /\ ~last.bind
    /\ last.usage = "DYNAMIC_DRAW"
    /\ last.location = "ELEMENT_ARRAY_BUFFER"
    /\ Bound(dev, "ELEMENT_ARRAY_BUFFER") = last.id
    /\ dev.store[last.id] # NoStore

---------------------------------------------------------------------------
\* C27: with two buffers sharing a target, under any sequence of bind,
\* unbind and buffer calls, the data passed to one buffer's buffer(..) is
\* stored in that buffer's data store and in no other's, for both values of
\* bind_first.
C27_DataLandsInOwnStore ==
    [][last'.op = "Buffer::buffer" =>
        /\ \A i \in At(last'.calls, "BufferData") :
            dev'.store[last'.id] =
                [size |-> last'.calls[i].size, usage |-> last'.calls[i].usage]
        /\ \A b \in Names \ {last'.id} : dev'.store[b] = dev.store[b]]_vars

---------------------------------------------------------------------------
\* C26: with two linked programs, under any interleaving of bind, unbind
\* and set_uniform calls on them, set_uniform on one program never changes
\* a uniform value of the other: every uniform it writes is a uniform of
\* the program it was called on.
C26_WritesOwnUniforms ==
    [][last'.op = "ShaderProgram::set_uniform" =>
        \A i \in DOMAIN last'.calls :
            \A u \in UniformsWritten(ContextAt(dev, last'.calls, i),
                                     last'.calls[i]) :
                u[1] = last'.id]_vars

---------------------------------------------------------------------------
\* The live wrappers that hold a clone of the Gl handle: one for every
\* handle owned by a live wrapper, and one for every live Mesh.
Wrappers == Cardinality(Live) + Cardinality(DOMAIN meshes)

\* C22: in every reachable state the reference count of the Gl handle is at
\* least the number of live wrappers, and the function table is freed (the
\* count is zero) only after every wrapper has issued its release call.
C22_TableOutlivesWrappers ==
    /\ gl.strong >= Wrappers
    /\ gl.strong = 0 =>
        /\ Live = {}
        /\ \A h \in Handles : Created(h) => dev.del[h] = 1

\* The caller dropped its handle while a mesh was alive, and the table was
\* freed by the destruction of the mesh.
C22_Witness ==
    /\ last.op = "drop Mesh"
    /\ gl.strong = 0
    /\ dev.del[<<"buffer", last.mesh.ebo>>] = 1

---------------------------------------------------------------------------
\* The positions of the value-setting calls, and of the calls of
\* Mesh::render, in a call sequence.
UniformSets(calls) == {i \in DOMAIN calls : calls[i].op \in UniformCalls}

RenderCalls(calls) ==
    {i \in DOMAIN calls :
        calls[i].op \in {"BindVertexArray", "BindBuffer",
                         "EnableVertexAttribArray", "DrawElements",
                         "DisableVertexAttribArray"}}

\* C25: every loop_tick issues its calls in the order bind of the program,
\* the set_uniform calls, the render calls, unbind of the program; no
\* value-setting call and no draw is issued while no program is current;
\* and at the end of the iteration neither a program nor a vertex array is
\* current.
C25_TickOrder ==
    [][last'.op = "App::loop_tick" =>
        LET calls == last'.calls
            binds == {i \in At(calls, "UseProgram") : calls[i].id = app.shader}
            unbinds == {i \in At(calls, "UseProgram") : calls[i].id = 0}
        IN  /\ Cardinality(binds) = 1 /\ Cardinality(unbinds) = 1
            /\ At(calls, "DrawElements") # {}
            /\ \A b \in binds, u \in unbinds :
                \A i \in UniformSets(calls), r \in RenderCalls(calls) :
                    b < i /\ i < r /\ r < u
            /\ \A i \in UniformSets(calls) \cup At(calls, "DrawElements") :
                ContextAt(dev, calls, i).program = app.shader
            /\ dev'.program = 0
            /\ dev'.vao = 0]_vars

\* A tick of the loop has set both uniforms and drawn the mesh.
C25_Witness ==
    /\ last.op = "App::loop_tick"
    /\ Cardinality(UniformSets(last.calls)) = 2
    /\ dev.draws[app.mesh] = 2
    /\ ~last.panicked

---------------------------------------------------------------------------
\* The positions of the release calls in a call sequence.
Releases(calls) ==
    {i \in DOMAIN calls :
        calls[i].op \in {"DeleteShader", "DeleteProgram", "DeleteBuffers",
                         "DeleteVertexArrays"}}

\* C28: when App is dropped, every release call of the shader program and
\* of the mesh is issued before the window that owns the context is
\* destroyed.
C28_ReleasesBeforeWindow ==
    last.op = "drop App" =>
        Before(Releases(last.calls), At(last.calls, "glfwDestroyWindow"))

---------------------------------------------------------------------------
\* C29: a delivered press of Escape tells the window to close, so that the
\* loop ends after the loop_tick of that iteration; and the loop is never
\* left without a request to close the window.
C29_LoopExit ==
    /\ (/\ last.op = "App::handle_window_events"
        /\ \E i \in DOMAIN last.events : last.events[i] = "KeyEscapePress")
            => app.should_close
    /\ app.pc \in {"returned", "panicked", "dropped"} => app.should_close

---------------------------------------------------------------------------
\* The positions of the log-length queries and of the log fetches in a call
\* sequence.
LengthQueries(calls) ==
    {i \in DOMAIN calls :
        /\ calls[i].op \in {"GetShaderiv", "GetProgramiv"}
        /\ calls[i].pname = "INFO_LOG_LENGTH"}

LogFetches(calls) ==
    {i \in DOMAIN calls :
        calls[i].op \in {"GetShaderInfoLog", "GetProgramInfoLog"}}

\* C31: retrieving a compile or a link log, the log is fetched only when the
\* reported length is > 0, the buffer handed to the device has exactly the
\* reported length and the maximum size passed with it does not exceed it,
\* and the conversion to text is never given an empty buffer; the conversion
\* removes at most one trailing null byte: a buffer ending in two null bytes
\* keeps one, a buffer with no trailing null byte is returned unchanged.
C31_LogRetrieval ==
    /\ last.op \in {"Shader::new_from_source",
                    "ShaderProgram::new_from_shaders"} =>
        LET calls == last.calls
        IN  /\ \A f \in LogFetches(calls) :
                /\ f - 1 \in LengthQueries(calls)
                /\ calls[f - 1].value > 0
                /\ calls[f].id = calls[f - 1].id
                /\ calls[f].bufLen = calls[f - 1].value
                /\ calls[f].maxLength <= calls[f].bufLen
            /\ \A q \in LengthQueries(calls) :
                calls[q].value <= 0 => q + 1 \notin LogFetches(calls)
            /\ last.err # Panic
    /\ last.op = "create_str_from_raw_cstr" =>
        LET str == last.str
            text == last.text
            n == Len(str)
        IN  /\ text # Panic
            /\ Len(text) >= n - 1
            /\ text = SubSeq(str, 1, Len(text))
            /\ str[n] # NUL => text = str
            /\ str[n] = NUL => Len(text) = n - 1
            /\ (n >= 2 /\ str[n] = NUL /\ str[n - 1] = NUL) =>
                    text[Len(text)] = NUL

\* A buffer ending in two null bytes has been converted: the text ends in
\* the first of them.
C31_Witness ==
    /\ last.op = "create_str_from_raw_cstr"
    /\ Len(last.str) = 3
    /\ last.str[2] = NUL /\ last.str[3] = NUL
    /\ Len(last.text) = 2

=============================================================================
